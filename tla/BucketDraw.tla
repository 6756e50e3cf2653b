----------------------------- MODULE BucketDraw -----------------------------
(***************************************************************************)
(* How an organization's stores draw credits from dated buckets and give   *)
(* them back.  rows[b].expires and rows[b].made order the buckets; whole   *)
(* and the results are functions from buckets to amounts.                  *)
(***************************************************************************)
EXTENDS Sums

\* ORDER BY expires_at NULLS LAST, created_at ASC
Sooner(rows, b, c) ==
  \/ rows[b].expires < rows[c].expires
  \/ rows[b].expires = rows[c].expires /\ rows[b].made < rows[c].made

Within(n, bound) == IF n < 0 THEN 0 ELSE IF n < bound THEN n ELSE bound

\* amount, taken from the bucket that expires first until it is empty, then
\* from the next one.
Drawn(rows, whole, amount) ==
  [b \in DOMAIN whole |->
     Within(amount - Total([c \in DOMAIN whole |->
                       IF Sooner(rows, c, b) THEN whole[c] ELSE 0]), whole[b])]

\* amount, given back from the last bucket that was drawn to the first.
GivenBack(rows, whole, amount) ==
  [b \in DOMAIN whole |->
     Within(amount - Total([c \in DOMAIN whole |->
                       IF Sooner(rows, b, c) THEN whole[c] ELSE 0]), whole[b])]
=============================================================================
