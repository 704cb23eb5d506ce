---------------------------- MODULE ComposeTree ----------------------------
(***************************************************************************)
(* How compose builds a dialog from a request (compose_build_tree in       *)
(* src/src/plugins/compose-main.c): the pairs of the request are a tree in *)
(* prefix order, every node closed by node=end, read once from left to     *)
(* right with a stack of bounded depth.  The declaration is read token by  *)
(* token: one token stands for a node with its parameters, or an end.      *)
(***************************************************************************)
EXTENDS Integers, Sequences, FiniteSets

CONSTANTS
  Tokens,     \* of [type, name], and those of type "end"; name is "" or a node-id
  MaxNodes,   \* COMPOSE_MAX_NODES
  MaxDepth,   \* COMPOSE_MAX_DEPTH
  MaxTokens   \* bound: length of a declaration

VARIABLES
  declared,   \* the tokens read so far
  stack,      \* nodes whose end has not been seen, outermost first
  tree,       \* the nodes made: [type, name, parent], in order; w_id is the index
  state       \* building, built, refused

vars == <<declared, stack, tree, state>>

ConstAssumption ==
  /\ {MaxNodes, MaxDepth, MaxTokens} \subseteq Nat \ {0}
  /\ "end" \in {t.type : t \in Tokens}

Boxes     == {"vbox", "framed"}    \* vbox and hbox; framed: with border=true
Parents   == Boxes \cup {"scroll"}

Init == declared = <<>> /\ stack = <<>> /\ tree = <<>> /\ state = "building"

Depth == Len(stack)
Count == Len(tree)
Top   == stack[Depth]

(* Its children go into the box a frame holds, but it is the frame that is *)
(* the node: for the tree the two are one.                                 *)
Node(t) == [type |-> t.type, name |-> t.name, parent |-> IF Depth = 0 THEN 0 ELSE Top]

WithinLimitsLate == Count < MaxNodes /\ Depth <= MaxDepth  \* faulty: one too deep
WithinLimits == Count < MaxNodes /\ Depth < MaxDepth

Placed(t) ==
  /\ Depth = 0 => Count = 0
  /\ Count = 0 => t.type \in Boxes
  /\ Depth > 0 => tree[Top].type \in Parents

Named(t) == t.name = "" \/ \A k \in 1..Count : tree[k].name # t.name

Popped == SubSeq(stack, 1, Depth - 1)

End(t) ==
  /\ t.type = "end" /\ Depth > 0
  /\ stack' = Popped
  /\ UNCHANGED <<tree, state>>

(* A node that cannot be made, for a wrong parameter or for want of memory,*)
(* is "bad".                                                               *)
CreateNode(t) ==
  /\ t.type \notin {"end", "bad"} /\ WithinLimits /\ Placed(t) /\ Named(t)
  /\ tree' = Append(tree, Node(t)) /\ stack' = Append(stack, Count + 1)
  /\ UNCHANGED state

(* What has been built belongs to the root, which is freed.                *)
Refuse == state' = "refused" /\ tree' = <<>> /\ stack' = <<>>

Refused(t) ==
  \/ t.type = "bad"
  \/ t.type = "end" /\ Depth = 0
  \/ t.type # "end" /\ ~(WithinLimits /\ Placed(t) /\ Named(t))

Token ==
  /\ state = "building" /\ Len(declared) < MaxTokens
  /\ \E t \in Tokens :
       /\ declared' = Append(declared, t)
       /\ End(t) \/ CreateNode(t) \/ (Refused(t) /\ Refuse)

HasButton == \E k \in 1..Count : tree[k].type = "button"

EndOfRequest ==
  /\ state = "building"
  /\ \/ Depth = 0 /\ HasButton /\ state' = "built" /\ UNCHANGED <<stack, tree>>
     \/ ~(Depth = 0 /\ HasButton) /\ Refuse
  /\ UNCHANGED declared

Next == Token \/ EndOfRequest
Spec == Init /\ [][Next]_vars

-----------------------------------------------------------------------------
(* What a declaration means, said without a stack: how deep a token is,    *)
(* the node it is in, and when a declaration is one.                       *)
Opens(k)   == Cardinality({j \in 1..k : declared[j].type # "end"})
Closes(k)  == k - Opens(k)
DepthAt(k) == Opens(k - 1) - Closes(k - 1)   \* nodes around token k
NodesOf    == {k \in 1..Len(declared) : declared[k].type # "end"}

Around(k) == {j \in NodesOf : j < k /\ \A i \in j + 1..k : DepthAt(i) > DepthAt(j)}
Parent(k) ==
  IF Around(k) = {} THEN 0
  ELSE CHOOSE j \in Around(k) : \A i \in Around(k) : i <= j

WellFormed ==
  /\ \A k \in 1..Len(declared) : Closes(k) <= Opens(k)
  /\ 2 * Cardinality(NodesOf) = Len(declared)
  /\ \A k \in NodesOf : declared[k].type # "bad" /\ DepthAt(k) < MaxDepth
  /\ Cardinality(NodesOf) <= MaxNodes
  /\ \A k \in NodesOf :
       IF Around(k) = {} THEN k = 1 /\ declared[k].type \in Boxes
       ELSE declared[Parent(k)].type \in Parents
  /\ \A j, k \in NodesOf :
       j # k /\ declared[j].name # "" => declared[j].name # declared[k].name
  /\ \E k \in NodesOf : declared[k].type = "button"

(* A dialog is built exactly from the declarations that have a meaning,    *)
(* and its tree is what they mean: every node numbered in the order of the *)
(* request, in the node whose end comes next after its own.  What is not   *)
(* one is not built in part, and a declaration refused early could not     *)
(* have become one.                                                        *)
BuildsWhatIsDeclared ==
  /\ state = "built" =>
       /\ WellFormed
       /\ Count = Cardinality(NodesOf)
       /\ \A k \in NodesOf :
            LET n == tree[Opens(k)] IN
            /\ n.type = declared[k].type /\ n.name = declared[k].name
            /\ n.parent = IF Parent(k) = 0 THEN 0 ELSE Opens(Parent(k))
  /\ state = "refused" => ~WellFormed /\ tree = <<>>
=============================================================================
