---------------------------- MODULE ProfileVisits ----------------------------
(***************************************************************************)
(* Which parameters of the tables the update handler visits, and the pairs *)
(* of parameters that come of a table: two instances of each parameter,    *)
(* for each set of places they may share, and a parameter together with    *)
(* the one whose getter it calls or whose field it answers from.           *)
(***************************************************************************)
EXTENDS MediaGetters, WirelessGetters, StorageGetters, FiniteSets, TLC

Bare(g) ==
    [fails |-> g.fails, source |-> g.source, tells |-> g.tells,
     named |-> g.named]

Instances(table, visit) ==
    UNION {{[get |-> [r \in {"one", "two"} |-> Bare(table[p])], joint |-> j,
             reads |-> FALSE,
             visited |-> [r \in {"one", "two"} |-> visit]] :
               j \in table[p].joint} : p \in DOMAIN table}

Readers(table, visitOther, visit) ==
    UNION {{[get |-> ("one" :> Bare(g)) @@ ("two" :> Bare(table[p])),
             joint |-> IF table[p].source = "other" THEN {"field"} ELSE {},
             reads |-> table[p].source # "other",
             visited |-> ("one" :> visitOther) @@ ("two" :> visit)] :
               g \in table[p].reads} : p \in DOMAIN table}

Pairs(table, visit) == Instances(table, visit) \cup Readers(table, visit, visit)

Chosen(table, names) == [p \in DOMAIN table \cap names |-> table[p]]
Without(table, names) == [p \in DOMAIN table \ names |-> table[p]]

-----------------------------------------------------------------------------
(* The notify tables of Ethernet, IP and Device free the key and the word  *)
(* they have just inserted.                                                *)
Ethernet_Interface_Visits ==
    Pairs(Ethernet_Interface, "freed") \cup
    Pairs(Ethernet_Interface_Upstream, "freed") \cup
    Pairs(Ethernet_Interface_Link, "freed")

Ethernet_Stats_Visits ==
    Pairs(Ethernet_Interface_Traffic, "freed") \cup
    Pairs(Chosen(Ethernet_Interface_Unicast,
                 {"UnicastPacketsSent", "UnicastPacketsReceived"}), "freed")

Ethernet_Multicast_Visits ==
    Pairs(Chosen(Ethernet_Interface_Unicast,
                 {"DiscardPacketsSent", "DiscardPacketsReceived"}), "freed")
    \cup Pairs(Ethernet_Interface_Multicast, "freed")

EthernetClientReqHandler ==
    Ethernet_Interface_Visits \cup Ethernet_Stats_Visits \cup
    Ethernet_Multicast_Visits

IP_Interface_State_Visits ==
    Pairs(IP_Interface_Enable, "freed") \cup
    Pairs(IP_Interface_Status, "freed")

IP_Interface_Visits ==
    Pairs(IP_Interface_Name, "freed") \cup
    Pairs(IP_Interface_Type, "freed") \cup
    Pairs(IP_Interface_Loopback, "freed")

IP_Traffic_Visits ==
    Pairs(IP_Interface_Traffic, "freed") \cup
    Pairs(Chosen(IP_Interface_Unicast,
                 {"UnicastPacketsSent", "UnicastPacketsReceived"}), "freed")

(* What is sent as broadcast is looked for by the name PacketsSent.        *)
IP_Multicast_Visits ==
    Pairs(Chosen(IP_Interface_Unicast,
                 {"DiscardPacketsSent", "DiscardPacketsReceived"}), "freed")
    \cup Pairs(Without(IP_Interface_Multicast, {"BroadcastPacketsSent"}),
               "freed")
    \cup Pairs(Chosen(IP_Interface_Multicast, {"BroadcastPacketsSent"}),
               "never")

IP_ActivePort_Visits == Pairs(IP_ActivePort, "freed")

IPClientReqHandler ==
    IP_Interface_State_Visits \cup IP_Interface_Visits \cup
    IP_Traffic_Visits \cup IP_Multicast_Visits \cup IP_ActivePort_Visits

(* The branch of the addresses tests a position that is never set.         *)
IPv4Address_NotVisited ==
    Pairs(IPv4Address_State, "never") \cup Pairs(IPv4Address, "never") \cup
    Pairs(IPv4Address_Type, "never")

(* There is no instance between Device.IP and the parameter, and IPv6 has  *)
(* no branch.                                                              *)
IP_NotVisited ==
    Pairs(IP, "never") \cup
    Pairs(IPv6Address_State, "never") \cup Pairs(IPv6Address, "never") \cup
    Pairs(IPv6Address_Origin, "never") \cup
    Pairs(IPv6Address_Lifetime, "never") \cup
    Pairs(IPv6Prefix, "never") \cup Pairs(IPv6Prefix_Prefix, "never") \cup
    Pairs(IPv6Prefix_Static, "never") \cup
    Pairs(IPv6Prefix_Parent, "never") \cup
    Pairs(IPv6Prefix_Lifetime, "never")

DeviceClientReqHandler ==
    Pairs(DeviceInfo_Processor, "freed") \cup
    Pairs(DeviceInfo_Process, "freed") \cup
    Pairs(DeviceInfo_Process_State, "freed")

(* matchComponent wants an instance between the object and the parameter,  *)
(* so that nothing under DeviceInfo itself or ProcessStatus matches.       *)
DeviceInfo_NotVisited ==
    Pairs(DeviceInfo_ProcessStatus, "never") \cup
    Pairs(DeviceInfo_Maker, "never") \cup
    Pairs(DeviceInfo_Model, "never") \cup
    Pairs(DeviceInfo_Product, "never") \cup
    Pairs(DeviceInfo_Serial, "never") \cup
    Pairs(DeviceInfo_Version, "never") \cup
    Pairs(DeviceInfo_Hardware, "never")

DeviceInfo_Boot_NotVisited ==
    Pairs(DeviceInfo_Provisioning, "never") \cup
    Pairs(DeviceInfo_STB_MAC, "never") \cup
    Pairs(DeviceInfo_STB_IP, "never") \cup
    Pairs(DeviceInfo_Firmware, "never")

(* The visits use a variable they do not declare: a build that visits is   *)
(* one without this profile.                                               *)
DHCPv4ClientReqHandler == Pairs(DHCPv4_Client, "never")

MoCA_Interface_Visits ==
    Pairs(MoCA_Link, "kept") \cup Pairs(MoCA_Rates, "kept")

MoCA_Network_Visits ==
    Pairs(MoCA_Network, "kept") \cup Pairs(MoCA_Privacy, "kept")

MoCA_Power_Visits ==
    Pairs(MoCA_Power, "kept") \cup Pairs(MoCA_Taboo, "kept")

MoCA_Associated_Visits ==
    Pairs(MoCA_Associated_Rates, "kept") \cup
    Pairs(Chosen(MoCA_Associated_Power,
                 {"TxPowerControlReduction", "RxPowerLevel"}), "kept")

MoCA_Associated_State_Visits ==
    Pairs(Without(MoCA_Associated_Power,
                  {"TxPowerControlReduction", "RxPowerLevel"}), "kept") \cup
    Pairs(MoCA_Associated_State, "kept")

MoCA_Stats_Visits ==
    Pairs(MoCA_Traffic, "kept") \cup Pairs(MoCA_Unicast, "kept")

MoCA_Multicast_Visits ==
    Pairs(MoCA_Multicast, "kept") \cup Pairs(MoCA_QoS, "kept")

MoCA_Flow_Visits == Pairs(MoCA_FlowStats, "kept")

MoCAClientReqHandler ==
    MoCA_Interface_Visits \cup MoCA_Network_Visits \cup
    MoCA_Power_Visits \cup Pairs(MoCA_Own, "never") \cup
    Pairs(MoCA_MeshTable, "never") \cup
    MoCA_Associated_Visits \cup MoCA_Associated_State_Visits \cup
    MoCA_Stats_Visits \cup MoCA_Multicast_Visits \cup MoCA_Flow_Visits

(* The names these two look for are never those of a parameter.            *)
TimeClientReqHandler == Pairs(Time, "never")
InterfaceStackClientReqHandler == Pairs(InterfaceStack, "never")

(* The visits of the device settings are commented out.                    *)
DSClientReqHandler ==
    Pairs(AudioOutput_State, "never") \cup
    Pairs(AudioOutput_Coding, "never") \cup
    Pairs(AudioOutput_Loudness, "never") \cup
    Pairs(AudioOutput_Loop, "never") \cup
    Pairs(DisplayDevice_Edid, "never") \cup
    Pairs(DisplayDevice_Resolution, "never") \cup
    Pairs(HDMI_State, "never") \cup Pairs(SPDIF, "never") \cup
    Pairs(SPDIF_Coding, "never") \cup Pairs(VideoDecoder, "never") \cup
    Pairs(VideoOutput_Format, "never") \cup
    Pairs(VideoOutput_Display, "never")

(* The visits of WiFi and of Bluetooth look at numbers of instances only;  *)
(* the storage has no branch.                                              *)
WiFiReqHandler ==
    Pairs(WiFi_Counts, "never") \cup Pairs(WiFi_Radio, "never") \cup
    Pairs(WiFi_Radio_State, "never") \cup
    Pairs(WiFi_Radio_Channels, "never") \cup
    Pairs(WiFi_Radio_Stats, "never") \cup Pairs(WiFi_SSID, "never") \cup
    Pairs(WiFi_EndPoint, "never") \cup Pairs(WiFi_EndPoint_Stats, "never")
    \cup Pairs(WiFi_EndPoint_Security, "never") \cup
    Pairs(WiFi_ClientRoaming, "never")

BlueTooth_NotVisited ==
    Pairs(BlueTooth_State, "never") \cup Pairs(BlueTooth_Counts, "never") \cup
    Pairs(BlueTooth_Discovered, "never") \cup
    Pairs(BlueTooth_Discovered_Connected, "never") \cup
    Pairs(BlueTooth_Paired, "never") \cup
    Pairs(BlueTooth_Connected, "never") \cup
    Pairs(BlueTooth_Connected_Type, "never") \cup
    Pairs(BlueTooth_DeviceInfo, "never") \cup
    Pairs(BlueTooth_DeviceInfo_Signal, "never") \cup
    Pairs(BlueTooth_GetDeviceInfo, "never") \cup
    Pairs(BlueTooth_Beacons, "never")

Storage_NotVisited ==
    Pairs(EMMC_Device, "never") \cup Pairs(EMMC_State, "never") \cup
    Pairs(EMMC_Qualified, "never") \cup Pairs(EMMC_Report, "never") \cup
    Pairs(SDCard_State, "never") \cup Pairs(SDCard_Maker, "never") \cup
    Pairs(SDCard_Status, "never")

Profiles ==
    EthernetClientReqHandler \cup IPClientReqHandler \cup
    IPv4Address_NotVisited \cup IP_NotVisited \cup
    DeviceClientReqHandler \cup DeviceInfo_NotVisited \cup
    DeviceInfo_Boot_NotVisited \cup
    DHCPv4ClientReqHandler \cup MoCAClientReqHandler \cup
    TimeClientReqHandler \cup InterfaceStackClientReqHandler \cup
    DSClientReqHandler \cup WiFiReqHandler \cup
    BlueTooth_NotVisited \cup Storage_NotVisited
=============================================================================
