----------------------------- MODULE MCRpcClient -----------------------------
(* Instances of RpcClient for TLC. *)
EXTENDS RpcClientInv, TLC

CONSTANTS a, g, h,   \* calls: a by Client.Call, g and h by Client.Go
          ca, cg     \* Done channels: a's own, and one g and h share

MCChanOf == [c \in Calls |-> IF c = a THEN ca ELSE cg]
MCChans  == {MCChanOf[c] : c \in Calls}

(* Every channel has capacity 1, the least Client.Go accepts *)
MCCapOne == [ch \in MCChans |-> 1]

(* The two Client.Go calls are interchangeable *)
GoSymmetry == Permutations({g, h})

=============================================================================
