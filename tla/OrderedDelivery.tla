--------------------------- MODULE OrderedDelivery ---------------------------
(***************************************************************************)
(* What a protected stream promises its users, whatever the carrier does:   *)
(* the records handed to the receiving application are a prefix of the      *)
(* records handed to the sending one, in the same order, none twice.        *)
(***************************************************************************)
EXTENDS Integers, Sequences

CONSTANT Message

VARIABLES out,  \* records the sender has released
          in    \* records the receiver has accepted

Init == out = << >> /\ in = << >>

\* The sender releases one record or several.
Send == /\ out' \in Seq(Message)
        /\ Len(out') >= Len(out)
        /\ \A i \in DOMAIN out : out'[i] = out[i]
        /\ UNCHANGED in

\* The receiver accepts the next record.
Receive == /\ Len(in) < Len(out)
           /\ in' = Append(in, out[Len(in) + 1])
           /\ UNCHANGED out

Next == Send \/ Receive

Spec == Init /\ [][Next]_<<out, in>>
=============================================================================
