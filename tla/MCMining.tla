------------------------------ MODULE MCMining ------------------------------
(* Mining for TLC.                                                           *)
EXTENDS Mining

CONSTANTS b1, bd

(* One job of the user's pool; the same with another difficulty, which is a   *)
(* job of its own with the same blob; one of the donation's.                  *)
OneBlob  == {[id |-> 1, blob |-> b1]}
Retarget == OneBlob \cup {[id |-> 2, blob |-> b1]}
Donation == {[id |-> 9, blob |-> bd]}
Nothing  == {}
=============================================================================
