--------------------------- MODULE MCNasPortAttr ----------------------------
(* Instances of NasPortAttr for TLC. *)
EXTENDS NasPortAttr

CONSTANTS v0, v1

S(a, v) == [attr |-> a, val |-> v]

Up == <<S("enabled", TRUE)>>
Down == <<S("enabled", FALSE)>>
UpAndMtu == <<S("enabled", TRUE), S("mtu", 2)>>
LearnAndMode == <<S("learn", v1), S("mode", v1)>>
DownAndRest == <<S("enabled", FALSE), S("mac", v1), S("phy", v1), S("learn", v0)>>

Lists == {UpAndMtu, LearnAndMode, DownAndRest}
Admin == {Up, Down}

Unwelcome == {S("enabled", TRUE), S("mtu", 2), S("phy", v1)}
=============================================================================
