------------------------------ MODULE MCEngine ------------------------------
(* Instances of EngineController for TLC. *)
EXTENDS EngineProperties, TLC

CONSTANTS c1, c2, w1, w2, plain, proxy, bad

Viewers == Permutations({c1, c2}) \cup Permutations({w1, w2})

OneConfig == {plain}
TwoConfigs == {plain, proxy}
AllConfigs == {plain, proxy, bad}

CaptureOps == {"configure", "start_capture", "stop_capture"}
SendOps == CaptureOps \cup {"send"}
AllOps == LockedOps \cup UnlockedOps \cup {"noise"}
=============================================================================
