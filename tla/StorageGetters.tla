--------------------------- MODULE StorageGetters ---------------------------
(***************************************************************************)
(* The getters of the eMMC and of the SD card, in the terms of             *)
(* ProfileGetters.  None of them keeps a backup.                           *)
(***************************************************************************)
EXTENDS ProfileGetters

(* Device.Services.STBService.Components.X_RDKCENTRAL-COM_eMMCFlash: a     *)
(* query that fails is told, but for the qualification, which is assumed.  *)
EMMC_Device ==
    Each({"Capacity", "LifeElapsedA", "LifeElapsedB", "LotID",
          "Manufacturer"}, Refused)

EMMC_State ==
    Each({"Model", "ReadOnly", "SerialNumber"}, Refused)

EMMC_Qualified == [TSBQualified |-> Silent(Blank)]

EMMC_Report ==
    Each({"PreEOLStateSystem", "PreEOLStateEUDA", "PreEOLStateMLC",
          "FirmwareVersion", "DeviceReport"}, Refused)

(* ...X_RDKCENTRAL-COM_SDCard: whatever fails, the getters answer OK.      *)
(* With the storage library the property is then zero, or -1, or "None";   *)
(* through the storage manager the getter puts no value in the answer.     *)
getSDCardProperties == Blank
getSDCardProperties_IARM == Blank

SDCard_State ==
    Each({"Capacity", "CardFailed", "LifeElapsed"},
         Silent(getSDCardProperties \cup getSDCardProperties_IARM))

SDCard_Maker ==
    Each({"LotID", "Manufacturer", "Model"},
         Silent(getSDCardProperties \cup getSDCardProperties_IARM))

SDCard_Status ==
    Each({"ReadOnly", "SerialNumber", "TSBQualified", "Status"},
         Silent(getSDCardProperties \cup getSDCardProperties_IARM))
=============================================================================
