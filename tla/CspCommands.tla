------------------------------ MODULE CspCommands ------------------------------
(***************************************************************************)
(* The commands of the serialization protocol: what each API function of   *)
(* src/csp/csp-command-app.c sends and what it reads from the response,    *)
(* and the indications that src/csp/csp-command-callbacks.c dispatches.    *)
(***************************************************************************)
EXTENDS CspFormat

(* High bytes of the identifiers of commands and of indications.           *)
VNCP_CMD_ID       == \h6900
STACK_CALLBACK_ID == \h6300

Command(id, request, response) ==
  [id |-> VNCP_CMD_ID + id, request |-> request, response |-> response]

(* One table of the entries of several, whose names are all different.     *)
Catalogue(tables) ==
  [ name \in UNION {DOMAIN table : table \in tables} |->
      (CHOOSE table \in tables : name \in DOMAIN table)[name] ]

(* An EmberMacAddress and an EmberMacFrame, member by member.  The short   *)
(* and the long address are members of one union.                          *)
MacAddress == <<"a", "eui64", "u">>
MacFrame   == MacAddress \o MacAddress \o <<"v", "v", "u", "u">>

KeyCommands ==
  [ emberNetworkState         |-> Command(\h02, <<>>, <<"u">>),
    emberStackIsUp            |-> Command(\h03, <<>>, <<"u">>),
    emberSetSecurityKey       |-> Command(\h04, <<"key">>, <<"u">>),
    emberGetSecurityKey       |-> Command(\h4F, <<"key">>, <<"u", "key">>),
    emberSetPsaSecurityKey    |-> Command(\h4C, <<"w">>, <<"u">>),
    emberRemovePsaSecurityKey |-> Command(\h4D, <<>>, <<"u">>) ]

CounterAndChannelCommands ==
  [ emberSetNcpSecurityKeyPersistent |-> Command(\h52, <<"bytes", "w">>, <<"u">>),
    emberSetNcpSecurityKey           |-> Command(\h4E, <<"bytes">>, <<"u">>),
    emberGetKeyId                    |-> Command(\h50, <<>>, <<"w">>),
    emberGetCounter                  |-> Command(\h05, <<"u">>, <<"u", "w">>),
    emberSetRadioChannelExtended     |-> Command(\h4B, <<"v", "u">>, <<"u">>),
    emberSetRadioChannel             |-> Command(\h06, <<"v">>, <<"u">>) ]

RadioCommands ==
  [ emberGetRadioChannel                 |-> Command(\h07, <<>>, <<"v">>),
    emberSetRadioPower                   |-> Command(\h08, <<"v", "u">>, <<"u">>),
    emberGetRadioPower                   |-> Command(\h09, <<>>, <<"v">>),
    emberSetRadioPowerMode               |-> Command(\h0A, <<"u">>, <<"u">>),
    emberSetUnencryptedPacketsAcceptance |-> Command(\h58, <<"u">>, <<"u">>),
    emberSetMacParams                    |->
      Command(\h0B, <<"s", "u", "u", "u", "v", "v", "u", "w", "v">>, <<"u">>) ]

NodeCommands ==
  [ emberCurrentStackTasks   |-> Command(\h0C, <<>>, <<"v">>),
    emberOkToNap             |-> Command(\h0D, <<>>, <<"u">>),
    emberOkToHibernate       |-> Command(\h0E, <<>>, <<"u">>),
    emberGetEui64            |-> Command(\h0F, <<>>, <<"eui64">>),
    emberMacGetParentAddress |-> Command(\h3A, MacAddress, <<"u">> \o MacAddress),
    emberIsLocalEui64        |-> Command(\h10, <<"eui64">>, <<"u">>),
    emberGetNodeId           |-> Command(\h11, <<>>, <<"v">>) ]

NetworkStateCommands ==
  [ emberGetPanId                        |-> Command(\h12, <<>>, <<"v">>),
    emberGetParentId                     |-> Command(\h13, <<>>, <<"v">>),
    emberGetNodeType                     |-> Command(\h14, <<>>, <<"u">>),
    emberCalibrateCurrentChannelExtended |-> Command(\h46, <<"w">>, <<"u", "w">>),
    emberApplyIrCalibration              |-> Command(\h47, <<"w">>, <<"u">>),
    emberTempCalibration                 |-> Command(\h48, <<>>, <<"u">>),
    emberGetCalType                      |-> Command(\h49, <<>>, <<"w">>) ]

VersionCommands ==
  [ emberGetMaximumPayloadLength |-> Command(\h30, <<"u", "u", "u", "u">>, <<"v">>),
    emberSetIndirectQueueTimeout |-> Command(\h4A, <<"w">>, <<"u">>),
    emberGetVersionInfo          |-> Command(\h53, <<>>, <<"u", "v", "v", "w">>),
    emberOfdmSetMcs              |-> Command(\h54, <<"u">>, <<"u">>),
    emberOfdmGetMcs              |-> Command(\h55, <<>>, <<"u", "u">>),
    emberNcpSetLongMessagesUse   |-> Command(\h56, <<"u">>, <<"u">>) ]

MessageCommands ==
  [ emberUsingLongMessages         |-> Command(\h57, <<>>, <<"u">>),
    emberMessageSend               |->
      Command(\h16, <<"v", "u", "u", "l", "payload", "u">>, <<"u">>),
    emberPollForData               |-> Command(\h17, <<>>, <<"u">>),
    emberMacMessageSend            |->
      Command(\h2B, MacFrame \o <<"u", "l", "payload", "u">>, <<"u">>),
    emberMacSetPanCoordinator      |-> Command(\h38, <<"u">>, <<"u">>),
    emberSetPollDestinationAddress |-> Command(\h2D, MacAddress, <<"u">>) ]

ChildCommands ==
  [ emberRemoveChild                        |-> Command(\h31, MacAddress, <<"u">>),
    emberGetChildFlags                      |-> Command(\h32, MacAddress, <<"u", "u">>),
    emberGetChildInfo                       |->
      Command(\h33, MacAddress, <<"u">> \o MacAddress \o <<"u">>),
    emberPurgeIndirectMessages              |-> Command(\h2E, <<>>, <<"u">>),
    emberMacAddShortToLongAddressMapping    |-> Command(\h3E, <<"v", "eui64">>, <<"u">>),
    emberMacClearShortToLongAddressMappings |-> Command(\h3F, <<>>, <<"u">>) ]

ScanAndBeaconCommands ==
  [ emberNetworkLeave                |-> Command(\h40, <<>>, <<"u">>),
    emberNetworkInit                 |-> Command(\h18, <<>>, <<"u">>),
    emberStartActiveScan             |-> Command(\h19, <<"v">>, <<"u">>),
    emberStartEnergyScan             |-> Command(\h1A, <<"v", "u">>, <<"u">>),
    emberSetApplicationBeaconPayload |-> Command(\h1B, <<"bytes">>, <<"u">>),
    emberSetSelectiveJoinPayload     |-> Command(\h3C, <<"bytes">>, <<"u">>),
    emberClearSelectiveJoinPayload   |-> Command(\h3D, <<>>, <<"u">>) ]

FormAndJoinCommands ==
  [ emberFormNetwork         |-> Command(\h1C, <<"v", "v", "v">>, <<"u">>),
    emberJoinNetworkExtended |-> Command(\h1D, <<"u", "v", "v", "v", "v">>, <<"u">>),
    emberJoinNetwork         |-> Command(\h1E, <<"u", "v", "v", "v">>, <<"u">>),
    emberMacFormNetwork      |-> Command(\h3B, <<"v", "v", "v">>, <<"u">>),
    emberPermitJoining       |-> Command(\h1F, <<"u">>, <<"u">>),
    emberJoinCommissioned    |-> Command(\h20, <<"u", "v", "v", "v", "v">>, <<"u">>) ]

FrequencyHoppingCommands ==
  [ emberResetNetworkState                 |-> Command(\h21, <<>>, <<>>),
    emberFrequencyHoppingSetChannelMask    |-> Command(\h2C, <<"bytes">>, <<"u">>),
    emberFrequencyHoppingStartServer       |-> Command(\h26, <<>>, <<"u">>),
    emberFrequencyHoppingStartClient       |-> Command(\h27, <<"v", "v">>, <<"u">>),
    emberFrequencyHoppingStop              |-> Command(\h28, <<>>, <<"u">>),
    emberSetAuxiliaryAddressFilteringEntry |-> Command(\h29, <<"v", "u">>, <<"u">>),
    emberGetAuxiliaryAddressFilteringEntry |-> Command(\h2A, <<"u">>, <<"v">>) ]

StreamCommands ==
  [ emberStartTxStream         |-> Command(\h43, <<"u", "v">>, <<"u">>),
    emberStopTxStream          |-> Command(\h44, <<>>, <<"u">>),
    emberSetActiveScanDuration |-> Command(\h41, <<"v">>, <<"u">>),
    emberGetActiveScanDuration |-> Command(\h42, <<>>, <<"v">>),
    emberGetDefaultChannel     |-> Command(\h45, <<>>, <<"v">>) ]

Commands ==
  Catalogue({ KeyCommands, CounterAndChannelCommands, RadioCommands, NodeCommands,
              NetworkStateCommands, VersionCommands, MessageCommands, ChildCommands,
              ScanAndBeaconCommands, FormAndJoinCommands, FrequencyHoppingCommands,
              StreamCommands })

(* The command that switches the message length mode.                      *)
SetLongMessagesUse == "emberNcpSetLongMessagesUse"

-----------------------------------------------------------------------------
Indication(id, format) == [id |-> STACK_CALLBACK_ID + id, format |-> format]

StatusIndications ==
  [ emberAfStackStatus           |-> Indication(\h00, <<"u">>),
    emberAfChildJoin             |-> Indication(\h01, <<"u", "v">>),
    emberAfRadioNeedsCalibrating |-> Indication(\h30, <<>>),
    emberAfActiveScanComplete    |-> Indication(\h05, <<>>),
    emberAfEnergyScanComplete    |-> Indication(\h06, <<"u", "u", "u", "v">>),
    emberAfFrequencyHoppingStartClientComplete |-> Indication(\h0A, <<"u">>) ]

MessageIndications ==
  [ emberAfMessageSent     |->
      Indication(\h02, <<"u", "u", "v", "u", "u", "l", "payload", "u", "w">>),
    emberAfIncomingMessage |->
      Indication(\h03, <<"u", "v", "u", "u", "l", "payload", "w", "u">>) ]

MacIndications ==
  [ emberAfIncomingMacMessage |->
      Indication(\h0B, <<"u">> \o MacFrame \o <<"u", "u", "w", "l", "payload", "w">>),
    emberAfMacMessageSent     |->
      Indication(\h0C, <<"u", "u">> \o MacFrame \o <<"u", "w", "l", "payload", "u", "w">>),
    emberAfIncomingBeacon     |->
      Indication(\h39, <<"v">> \o MacAddress
                         \o <<"u", "u", "n", "beaconFields", "n", "beaconPayload">>) ]

Indications == Catalogue({StatusIndications, MessageIndications, MacIndications})

(* The switch on the identifier; one that no case names is fatal.          *)
Dispatch(catalogue, identifier) ==
  {name \in DOMAIN catalogue : catalogue[name].id = identifier}
=============================================================================
