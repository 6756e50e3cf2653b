--------------------------- MODULE MCEmailCampaign ---------------------------
(* EmailCampaign on two users, two API processes, two sends of the campaign, *)
(* two deliveries of one payment event, a letter and two test letters.       *)
EXTENDS EmailCampaign, TLC

CONSTANTS u1, u2, p1, p2, c1, c2, n1, n2, l1, l2, l3

MCScenarios == {{c1, c2}, {n1, n2}, {c1, n1}, {n1, l1}, {l2, l3}}

Symmetry == Permutations(Processes)
=============================================================================
