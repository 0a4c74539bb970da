--------------------------- MODULE ProfileGetters ---------------------------
(***************************************************************************)
(* What the getters of the device profiles have in common and in which     *)
(* they differ: a table for each part of a profile, from the parameters to *)
(* a record with                                                           *)
(*                                                                         *)
(*   fails   what comes of a query that does not work: the getter refuses  *)
(*           (NOK), answers OK and a blank value, or answers OK and keeps  *)
(*           what its field holds; {} where there is no query to fail;     *)
(*   source  where a value is from: the device, the device but the first   *)
(*           time only ("once"), or the field of another parameter;        *)
(*   tells   what a visit that looks for changes is told: whether the      *)
(*           value is not the backup ("changes"), always that it changed,  *)
(*           that and the backup for a value ("the old"), that it changed  *)
(*           unless it is blank ("cut": the backup holds its first         *)
(*           characters only), or nothing;                                 *)
(*   joint   what two instances of the parameter may share: the field of a *)
(*           static structure, the backup, or the flag that there is one;  *)
(*   reads   the getter of another parameter that it calls, or that fills  *)
(*           the field it answers from;                                    *)
(*   named   it takes the instance from the name in the message, which a   *)
(*           visit clears.                                                 *)
(*                                                                         *)
(* Comparisons that end after 16 or 64 characters are left out: values     *)
(* that differ behind them count as one.                                   *)
(***************************************************************************)
EXTENDS Naturals

Getter(fails, tells) ==
    [fails |-> fails, source |-> "device", tells |-> tells, joint |-> {{}},
     reads |-> {}, named |-> FALSE]

Changes(fails) == Getter(fails, "changes")
Silent(fails) == Getter(fails, "nothing")

Refuses == {"refuses"}
Blank == {"blank"}
Keeps == {"keeps"}
Never == {}

Refused == Silent(Refuses)  \* answers NOK and nothing else

Sharing(g, places) == [g EXCEPT !.joint = places]
Reading(g, other) == [g EXCEPT !.reads = {other}]

Each(parameters, g) == [p \in parameters |-> g]

(* The statistics of an interface, in the order of the getters.            *)
Traffic ==
    {"BytesSent", "BytesReceived", "PacketsSent", "PacketsReceived",
     "ErrorsSent", "ErrorsReceived"}
Unicast ==
    {"UnicastPacketsSent", "UnicastPacketsReceived", "DiscardPacketsSent",
     "DiscardPacketsReceived"}
Multicast ==
    {"MulticastPacketsSent", "MulticastPacketsReceived",
     "BroadcastPacketsSent", "BroadcastPacketsReceived",
     "UnknownProtoPacketsReceived"}

-----------------------------------------------------------------------------
(* Device.DeviceInfo: strings of the manufacturer's library, files, and    *)
(* constants.  What a build with USE_DEV_PROPERTIES_CONF reads instead is  *)
(* not told of changes.                                                    *)

DeviceInfo_Serial == [SerialNumber |-> Changes(Refuses)]

DeviceInfo_Version == [SoftwareVersion |-> Changes(Refuses)]

DeviceInfo_Maker ==
    [Manufacturer    |-> Changes(Refuses),
     ManufacturerOUI |-> Changes(Refuses)]

DeviceInfo_Model ==
    [ModelName |-> Changes(Refuses), Description |-> Silent(Never)]

DeviceInfo_Product == [ProductClass |-> Changes(Refuses)]

DeviceInfo_Hardware ==
    [HardwareVersion           |-> Changes(Refuses),
     AdditionalHardwareVersion |-> Refused,
     AdditionalSoftwareVersion |-> Changes(Refuses)]

DeviceInfo_Provisioning ==
    [ProvisioningCode |-> Silent(Blank),
     UpTime           |-> Silent(Never),
     FirstUseDate     |-> Silent(Refuses)]

DeviceInfo_STB_MAC ==
    [STB_MAC |-> [Changes(Refuses) EXCEPT !.source = "once"]]

DeviceInfo_STB_IP ==
    [STB_IP      |-> Changes(Refuses),
     PowerStatus |-> Silent(Refuses)]

DeviceInfo_Firmware ==
    [FirmwareToDownload          |-> Silent(Refuses),
     FirmwareDownloadStatus      |-> Silent(Refuses),
     FirmwareDownloadProtocol    |-> Silent(Refuses),
     FirmwareDownloadURL         |-> Silent(Refuses),
     FirmwareDownloadUseCodebig  |-> Silent(Refuses),
     FirmwareDownloadDeferReboot |-> Silent(Never),
     FirmwareDownloadPercent     |-> Silent(Blank),
     FirmwareUpdateState         |-> Silent(Refuses)]

(* Device.DeviceInfo.Processor and ProcessStatus.  Architecture: strncpy   *)
(* where strncmp is meant puts the backup in place of the answer, and its  *)
(* result counts as a difference.  Command and State compare the result of *)
(* a copy, which succeeds.                                                 *)
DeviceInfo_Processor == [Architecture |-> Getter(Never, "the old")]

DeviceInfo_ProcessStatus == [CPUUsage |-> Changes(Blank)]

getProcessFields == {"refuses", "blank"}

OfProcess(tells) == [Getter(getProcessFields, tells) EXCEPT !.named = TRUE]

DeviceInfo_Process ==
    [PID |-> OfProcess("changes"), Command |-> OfProcess("always"),
     Size |-> OfProcess("changes")]

DeviceInfo_Process_State ==
    [Priority |-> OfProcess("changes"), CPUTime |-> OfProcess("changes"),
     State |-> OfProcess("always")]

-----------------------------------------------------------------------------
(* Device.Ethernet.Interface: each field is reset before its query, and an *)
(* interface that is gone has no name and is not asked.                    *)
getEthernetInterfaceName == Blank
get_Device_Ethernet_Interface_Fields == Blank \cup getEthernetInterfaceName
get_Device_Ethernet_Interface_Fields_Link ==
    Blank \cup getEthernetInterfaceName

Ethernet_Interface ==
    LET Own == Changes(get_Device_Ethernet_Interface_Fields)
    IN [Enable |-> Own, Status |-> Own,
        Name |-> Changes(getEthernetInterfaceName)]

Ethernet_Interface_Upstream ==
    [Upstream |-> Changes(get_Device_Ethernet_Interface_Fields),
     LastChange |-> Refused, LowerLayers |-> Refused]

Ethernet_Interface_Link ==
    LET Own == Changes(get_Device_Ethernet_Interface_Fields_Link)
    IN [MACAddress |-> Own, MaxBitRate |-> Own, DuplexMode |-> Own]

(* Its statistics: a static structure for all the interfaces; the name of  *)
(* the interface comes from the getter of Name.                            *)
(* Packets are counted as unicast, multicast and broadcast at once.        *)
read_Device_Ethernet_Interface_Stats_Fields == Keeps
read_Device_Ethernet_Interface_Stats_Errors == Keeps

Statistic(fails) ==
    Reading(Sharing(Changes(fails), {{"field"}}), Ethernet_Interface.Name)

Ethernet_Interface_Traffic ==
    Each(Traffic, Statistic(read_Device_Ethernet_Interface_Stats_Fields))

Ethernet_Interface_Unicast ==
    Each(Unicast,
         Statistic(read_Device_Ethernet_Interface_Stats_Fields \cup
                   read_Device_Ethernet_Interface_Stats_Errors))

Ethernet_Interface_Multicast ==
    Each(Multicast,
         Statistic(read_Device_Ethernet_Interface_Stats_Fields \cup
                   read_Device_Ethernet_Interface_Stats_Errors))

-----------------------------------------------------------------------------
(* Device.IP: one instance, so that its field is its own.                  *)
get_Device_IP_Fields == Keeps

IP ==
    [IPv4Capable |-> Changes(Never),
     IPv4Enable  |-> Changes(get_Device_IP_Fields),
     IPv4Status  |-> Changes(get_Device_IP_Fields),
     ULAPrefix   |-> Refused]

(* A failed popen keeps the port read last, a missing row clears it.       *)
getActivePortsFields == {"keeps", "blank"}

IP_ActivePort ==
    Each({"LocalIPAddress", "LocalPort", "RemoteIPAddress", "RemotePort",
          "Status"},
         Sharing(Changes(getActivePortsFields), {{"field"}}))

IP_Interface_Enable ==
    [Enable |-> Changes(Blank), IPv4Enable |-> Changes(Blank),
     IPv6Enable |-> Changes(Blank)]

IP_Interface_Status ==
    [ULAEnable |-> Refused, Status |-> Changes(Blank), Alias |-> Refused]

(* An interface that is not found has no name.                             *)
IP_Interface_Name ==
    [Name |-> Changes(Blank), LastChange |-> Refused,
     LowerLayers |-> Refused, Router |-> Refused, Reset |-> Changes(Never)]

IP_Interface_Type ==
    [MaxMTUSize |-> Changes(Blank), Type |-> Changes(Blank)]

IP_Interface_Traffic == Each(Traffic, Changes(Blank))
IP_Interface_Unicast == Each(Unicast, Changes(Blank))
IP_Interface_Multicast == Each(Multicast, Changes(Blank))

(* The memory of an interface is one for all its addresses.                *)
OfIPv4Address(fails) == Sharing(Changes(fails), {{"backup", "called"}})

IPv4Address_State ==
    [Enable |-> OfIPv4Address(Never), Status |-> OfIPv4Address(Never),
     Alias |-> Refused]

IPv4Address ==
    Each({"IPAddress", "SubnetMask"}, OfIPv4Address(Refuses))

IPv4Address_Type == [AddressingType |-> OfIPv4Address(Refuses)]

(* Prefixes have backups of their own, but the flags are the addresses'.   *)
IPv6Memory == {{"backup", "called"}, {"called"}}

IPv6Address_State ==
    LET Own == Sharing(Changes(Never), IPv6Memory)
    IN [Enable |-> Own, Status |-> Own, IPAddressStatus |-> Silent(Refuses)]

IPv6Address ==
    [Alias |-> Refused, IPAddress |-> Sharing(Changes(Refuses), IPv6Memory)]

IPv6Address_Origin ==
    [Origin |-> Sharing(Changes(Refuses), IPv6Memory),
     Prefix |-> Silent(Refuses)]

IPv6Prefix ==
    LET Own(fails) == Sharing(Changes(fails), IPv6Memory)
    IN [Enable |-> Own(Never), Status |-> Own(Never),
        PrefixStatus |-> Silent(Refuses)]

IPv6Prefix_Prefix ==
    [Alias |-> Refused, Prefix |-> Sharing(Changes(Refuses), IPv6Memory),
     Origin |-> Sharing(Changes(Refuses), IPv6Memory)]

IP_Interface_Loopback ==
    [Loopback |-> Changes(Blank), AutoIPEnable |-> Silent(Blank)]

get_ipv6address_lifetime == Refuses

IPv6Address_Lifetime ==
    [PreferredLifetime |-> Silent(get_ipv6address_lifetime),
     ValidLifetime     |-> Silent(get_ipv6address_lifetime),
     Anycast           |-> Silent(Never)]

IPv6Prefix_Static == [StaticType |-> Silent(Refuses)]

IPv6Prefix_Parent ==
    Each({"ParentPrefix", "ChildPrefixBits"}, Silent(Refuses))

IPv6Prefix_Lifetime ==
    [OnLink |-> Silent(Never), Autonomous |-> Silent(Never),
     PreferredLifetime |-> IPv6Address_Lifetime.PreferredLifetime,
     ValidLifetime     |-> IPv6Address_Lifetime.ValidLifetime]

-----------------------------------------------------------------------------
(* Device.DHCPv4.Client: the reference to an interface is looked up by the *)
(* names of the interfaces, through the getter of IP, and kept when none   *)
(* has the name; the servers and the routers are cleared before they are   *)
(* read.                                                                   *)
get_Device_DHCPv4_Client_Fields ==
    [Interface  |-> {"refuses", "keeps"},
     DNSServers |-> {"refuses", "blank"},
     IPRouters  |-> {"refuses", "blank"}]

DHCPv4_Client ==
    LET Own(p) == Changes(get_Device_DHCPv4_Client_Fields[p])
    IN [Interface  |-> Reading(Sharing(Own("Interface"), {{"field"}}),
                               IP_Interface_Name.Name),
        DNSServers |-> Own("DNSServers"),
        IPRouters  |-> Own("IPRouters")]

(* Device.InterfaceStack: what its row was made with.                      *)
InterfaceStack ==
    Each({"HigherLayer", "LowerLayer"}, Changes(Never))

Time ==
    [LocalTimeZone |-> Changes(Refuses), CurrentLocalTime |-> Changes(Never),
     Enable |-> Refused, Status |-> Refused, NTPServer |-> Refused]
=============================================================================
