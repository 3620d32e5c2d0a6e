---------------------------- MODULE DeliveredOnce ----------------------------
(***************************************************************************)
(* What a segmenting transport promises its user: of the messages handed   *)
(* to it some arrive, each whole, at most once and in the order they were  *)
(* sent, whatever happens to the frames that carry them.                   *)
(***************************************************************************)
EXTENDS Naturals, Sequences

CONSTANT Sizes

VARIABLES
  submitted,   \* sizes of the messages sent so far; a message is its index
  last,        \* the last message delivered, 0 before the first
  content      \* the parts it was delivered with

Whole(k) == [i \in 1 .. submitted[k] + 1 |-> <<k, i - 1>>]

Init == submitted = <<>> /\ last = 0 /\ content = <<>>

Submit ==
  /\ \E size \in Sizes : submitted' = Append(submitted, size)
  /\ UNCHANGED <<last, content>>

Deliver ==
  /\ \E k \in last + 1 .. Len(submitted) : last' = k /\ content' = Whole(k)
  /\ UNCHANGED submitted

Next == Submit \/ Deliver
vars == <<submitted, last, content>>
Spec == Init /\ [][Next]_vars
=============================================================================
