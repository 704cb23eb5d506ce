---------------------------- MODULE MCFocusRing ----------------------------
(* Two dialogs with one tree: a box of two fields, and a button.           *)
EXTENDS FocusRing
CONSTANTS d1, d2

TreeNodes    == {"root", "box", "field", "button"}
TreeChildren == [n \in TreeNodes |->
  CASE n = "root" -> <<"box", "button">> [] n = "box" -> <<"field">> [] OTHER -> <<>>]
(* The second dialog has a single button. *)
TreeCanFocus == [id \in {d1, d2} |->
  IF id = d1 THEN {"field", "button"} ELSE {"button"}]
=============================================================================
