---------------------------- MODULE HookrDropShares ----------------------------
(* What a drop promises the holders: a drop is split over the balances the   *)
(* last block closed with, each holder's part is fixed the moment the drop   *)
(* lands, whatever is traded afterwards, and each holder is paid its whole   *)
(* part once.                                                                *)
EXTENDS Integers, Sequences, Functions

CONSTANTS Holders,
          MaxAmount \* bound on what one drop brings

VARIABLES closing, \* what each holder's earning shares were when the last block closed
          part,    \* per drop, each holder's part of it
          paid,    \* per drop, what has been paid of it
          taken    \* the parts paid, as pairs of a drop and a holder

shareVars == <<closing, part, paid, taken>>

ShareInit ==
  /\ closing = [h \in Holders |-> 0]
  /\ part = <<>> /\ paid = <<>> /\ taken = {}

\* Trading and the passing of blocks change what the next drop is split over, and
\* nothing else.
Trade ==
  /\ closing' \in [Holders -> Nat]
  /\ UNCHANGED <<part, paid, taken>>

Drop(amount) ==
  LET supply == SumFunctionOnSet(closing, Holders)
  IN  /\ supply > 0
      /\ part' = Append(part, [h \in Holders |-> (closing[h] * amount) \div supply])
      /\ paid' = Append(paid, 0)
      /\ UNCHANGED <<closing, taken>>

Take(holder, i) ==
  /\ <<i, holder>> \notin taken /\ part[i][holder] > 0
  /\ taken' = taken \cup {<<i, holder>>}
  /\ paid' = [paid EXCEPT ![i] = @ + part[i][holder]]
  /\ UNCHANGED <<closing, part>>

ShareNext ==
  \/ Trade
  \/ \E amount \in 1..MaxAmount : Drop(amount)
  \/ \E h \in Holders, i \in DOMAIN part : Take(h, i)

ShareSpec == ShareInit /\ [][ShareNext]_shareVars

=============================================================================
