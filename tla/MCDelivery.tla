----------------------------- MODULE MCDelivery -----------------------------
\* Delivery with two required checks and two reviewers beside the author.
EXTENDS Delivery

MCLogin   == {<<"ann", "ann">>, <<"ann", "Ann">>, <<"bob", "bob">>, <<"eve", "Eve">>}
MCPinOf   == [c \in Component |-> IF c = "tests" THEN "runner@1" ELSE "hosted@1"]
MCSubject == {[id |-> "candidate", policy |-> "ours"],
              [id |-> "stale", policy |-> "ours"]}
=============================================================================
