--------------------------- MODULE MCController ---------------------------
(* Small instances of Controller: one switch; the keyboard effect, of      *)
(* which "static" has no direction and therefore only reads back;          *)
(* automatic fans, a low setting and one that is out of range; and a       *)
(* laptop with every node or with neither fan control nor the list of      *)
(* profile choices.  The interlock needs quiet and a hot profile beside    *)
(* balanced, the cache is well served by two profiles.                     *)
EXTENDS Controller

MCSwitches == {"battery_calibration"}
MCCodes == {"four_zone_mode"}
MCValid == [a \in MCCodes |-> {"wave"}]
MCFans == {AutoFans, [cpu |-> 10, gpu |-> 50], [cpu |-> 101, gpu |-> 50]}
MCNodes == {"profile", "fans", "choices"} \cup MCSwitches \cup MCCodes

LegalWith(profiles) ==
    [a \in MCNodes |->
        CASE a = "profile" -> profiles
          [] a = "fans" -> {f \in MCFans : ValidFans(f)}
          [] a = "choices" -> {profiles, {"balanced"}}
          [] a = "four_zone_mode" -> {"static", "wave"}
          [] OTHER -> BOOLEAN]
MCLegalCache == LegalWith({"balanced", "performance"})
MCLegalInterlock == LegalWith({"balanced", "quiet", "performance"})

MCZero ==
    [a \in MCNodes |->
        CASE a = "profile" -> ""
          [] a = "fans" -> AutoFans
          [] a = "choices" -> {}
          [] a = "four_zone_mode" -> "nil"
          [] OTHER -> FALSE]
MCMachines == {MCNodes, {"profile", "battery_calibration", "four_zone_mode"}}
=============================================================================
