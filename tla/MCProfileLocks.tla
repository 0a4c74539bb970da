--------------------------- MODULE MCProfileLocks ---------------------------
(***************************************************************************)
(* The instance of ProfileLocks for TLC: two threads that make requests    *)
(* and the one that visits the tables.                                     *)
(***************************************************************************)
EXTENDS ProfileLocks, TLC

CONSTANTS webpa, http, update

MCScope == {"stack and Ethernet", "stack and MoCA", "stack and IP",
            "DHCPv4 and IP", "device", "device and MoCA", "device and SNMP",
            "bootstrap", "others"}

(* The requests of a scope, with the resets of RegisterForEvents.          *)
RequestsOf(s) ==
    CASE s = "stack and Ethernet" ->
            InterfaceStackRequests \cup InterfaceStackReset
            \cup EthernetRequests \cup EthernetReset
      [] s = "stack and MoCA" ->
            InterfaceStackRequests \cup MoCARequests \cup MoCAReset
      [] s = "stack and IP" ->
            InterfaceStackRequests \cup IPRequests \cup IPReset
      [] s = "DHCPv4 and IP" ->
            DHCPv4Requests \cup IPRequests \cup IPReset
      [] s = "device" -> DeviceRequests \cup DeviceReset
      [] s = "device and MoCA" ->
            hostIf_GetMsgHandler(<<>>, DeviceGetParameter) \cup {BTReset}
            \cup MoCARequests
      [] s = "device and SNMP" ->
            hostIf_GetMsgHandler(<<>>, DeviceGetParameter)
            \cup hostIf_SetMsgHandler(<<>>, DeviceSetParameter)
            \cup SNMPRequests
      [] s = "bootstrap" -> TimeRequests \cup X_rdkRequests \cup DSRequests
      [] s = "others" ->
            XRERequests \cup StorageRequests \cup WiFiRequests \cup WiFiReset

VisitsOf(s) ==
    CASE s = "stack and Ethernet" -> InterfaceStackVisit \cup EthernetVisit
      [] s = "stack and MoCA" -> InterfaceStackVisit \cup MoCAVisit
      [] s = "stack and IP" -> InterfaceStackVisit \cup IPVisit
      [] s = "DHCPv4 and IP" -> DHCPv4Visit \cup IPVisit
      [] s = "device" -> DeviceVisit
      [] s = "device and MoCA" -> MoCAVisit \cup {BTVisit}
      [] s = "device and SNMP" -> {BTVisit}
      [] s \in {"bootstrap", "others"} -> WiFiVisit

MCCalls(s, t) == IF t = update THEN VisitsOf(s) ELSE RequestsOf(s)

Symmetric == Permutations({webpa, http})
=============================================================================
