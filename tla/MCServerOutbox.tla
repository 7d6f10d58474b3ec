--------------------------- MODULE MCServerOutbox ---------------------------
(* Instances of ServerOutbox for TLC.                                      *)
EXTENDS ServerOutbox, TLC

WorkerSymmetry == Permutations(Workers)

(* No time passes at these stages that Slowest does not cover.             *)
AllPrompt == {"loop"} \cup AtEvent

(* What the steps of a run with two workers, one row in a batch and no     *)
(* prompt stage read: what the two do, never which does which, how long it *)
(* has taken, or the columns of a processed row.  A state that is not well *)
(* formed is not taken for one that is.                                    *)
ChainView ==
    <<TypeOK,
      [r \in Rows |-> IF r \in Waiting THEN row[r] ELSE [NoRow EXCEPT !.exists = row[r].exists]],
      {<<pc[w], batch[w], others[w]>> : w \in Workers}, history>>
=============================================================================
