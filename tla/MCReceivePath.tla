---------------------------- MODULE MCReceivePath ---------------------------
(* A stream of frames, two header bytes each; message bytes that are read  *)
(* as a header announce size 1.                                            *)
EXTENDS ReceivePath

Sizes == <<1, 3, 0, 2, 3, 0, 0, 4, 2, 1, 2>>  \* the eighth is above MaxSize = 3

MCCount == Len(Sizes)

MCAt ==
  LET at[k \in 1..Len(Sizes) + 1] == IF k = 1 THEN 0 ELSE at[k - 1] + 2 + Sizes[k - 1]
  IN at

MCSizeAt ==
  [p \in 0..MCAt[Len(Sizes) + 1] |->
     IF \E k \in 1..Len(Sizes) : MCAt[k] = p
     THEN Sizes[CHOOSE k \in 1..Len(Sizes) : MCAt[k] = p] ELSE 1]

MCParses == {MCAt[1], MCAt[3]}

=============================================================================
