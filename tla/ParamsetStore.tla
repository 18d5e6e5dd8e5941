--------------------------- MODULE ParamsetStore ---------------------------
(***************************************************************************)
(* The paramsets, links and metadata of one interface process              *)
(* (internal/ccu/rpcfunctions.go, servicemessages.go, reachability.go).    *)
(* Every operation is one step under RPCFunctions.mu but                   *)
(* SetDeviceUnreachable, which looks the device up before it writes.  The  *)
(* events that a write fires are in EventDispatch, CONFIG_PENDING, ramps   *)
(* and the MASTER write models in DeviceTimers.                            *)
(*                                                                         *)
(* Values and descriptions are those of ParamValues.                       *)
(***************************************************************************)
EXTENDS DeviceResponses

CONSTANTS
  Addresses,   \* devices and channels of the embedded catalogue
  DeviceOf,    \* the device an address belongs to
  Maintenance, \* channel 0 of each device
  ParamDesc,   \* description: address -> paramset -> parameter
  TypeOf,      \* deviceTypeForAddressLocked: address -> device type
  Prefix,      \* device type -> the prefix InterfaceForType knows it by
  Raised       \* serviceParameters

\* What holds of every description that is embedded: bounds of a configuration
\* are ordered, and nothing the CCU sets on its own is an action.
ASSUME StoreAssumption ==
  /\ \A a \in Addresses :
       /\ "VALUES" \in DOMAIN ParamDesc[a] =>
            \A p \in DOMAIN ParamDesc[a]["VALUES"] \cap (Reported \cup {"UNREACH", "STICKY"}) :
              ParamDesc[a]["VALUES"][p].type # "ACTION"
       /\ "MASTER" \in DOMAIN ParamDesc[a] =>
            \A p \in DOMAIN ParamDesc[a]["MASTER"] :
              LET desc == ParamDesc[a]["MASTER"][p] IN
              /\ {desc.min, desc.max} \subseteq Int \cup {NoValue}
              /\ NoValue \in {desc.min, desc.max} \/ desc.min <= desc.max
              /\ desc.labels \in Seq(STRING)
  /\ \A a \in Range(Maintenance) \cap Addresses : "VALUES" \in DOMAIN ParamDesc[a]

VARIABLES
  devices,     \* addresses in RPCFunctions.devices
  overrides,   \* paramsets: <<address, kind>> -> parameter -> value
  compiled,    \* paramsetCompiled: <<address, kind>> -> parameter -> value
  dirty,       \* paramsetDirty
  links,       \* linkParamsets: <<sender, receiver>> -> parameter -> value
  linkInfo,    \* linkInfo: <<sender, receiver>> -> name
  metadata,    \* metadata: <<object, field>> -> value
  suppressed,  \* suppressed: address -> parameters
  masterModel, \* masterModel: MASTER writes follow the interface process
  poisoned,    \* poisoned: addresses with a parameter they do not have
  unreaching   \* SetDeviceUnreachable calls past the lookup: <<address, values to write>>

modelVars == <<masterModel, poisoned>>
storeVars == <<devices, overrides, compiled, dirty, links, linkInfo, metadata,
               suppressed, masterModel, poisoned, unreaching>>

Kinds(a)  == DOMAIN ParamDesc[a]
Described(a, kind) == a \in devices /\ kind \in Kinds(a)

-----------------------------------------------------------------------------
(* Paramsets                                                               *)

OverridesOf(key) == IF key \in DOMAIN overrides THEN overrides[key] ELSE <<>>

\* What a read has to answer: the overrides over the defaults.
Answer(key) == Over(OverridesOf(key), Defaults(ParamDesc[key[1]][key[2]]))

\* GetParamset of VALUES or MASTER; a cached paramset that is not dirty is
\* answered as it is.
GetParamset(a, kind) ==
  LET key == <<a, kind>> IN
  /\ kind \in {"VALUES", "MASTER"}
  /\ key \notin DOMAIN compiled \/ key \in dirty
  /\ Described(a, kind)
  /\ compiled' = Entered(compiled, key, Answer(key))
  /\ dirty' = dirty \ {key}
  /\ UNCHANGED <<modelVars, devices, overrides, links, linkInfo, metadata, suppressed, unreaching>>

\* What GetParamset answers of a described paramset.
Read(a, kind) ==
  LET key == <<a, kind>> IN
  IF key \in DOMAIN compiled /\ key \notin dirty THEN compiled[key] ELSE Answer(key)

\* A parameter that a write stops at, with the parameters before it stored.
Refused(desc, p, v, force) ==
  \/ p \notin DOMAIN desc
  \/ ~force /\ ~desc[p].write
  \/ desc[p].type # "ACTION" /\ Stored(v, desc[p]) = NoValue

IsAction(desc, p) == p \in DOMAIN desc /\ desc[p].type = "ACTION"

\* The parameters of order that putParamset stores: those before the first
\* that is refused or is an action.
Taken(desc, order, write, force) ==
  LET stops == {i \in 1 .. Len(order) : \/ Refused(desc, order[i], write[order[i]], force)
                                        \/ IsAction(desc, order[i])}
  IN {order[i] : i \in {j \in 1 .. Len(order) : \A s \in stops : j < s}}

\* Mutation: a write that is refused half way leaves the cache as it is.
DirtiedWhole(key, taken, write) ==
  IF taken # {} /\ taken = DOMAIN write THEN dirty \cup {key} ELSE dirty

Dirtied(key, taken, write) == IF taken # {} THEN dirty \cup {key} ELSE dirty

InterfaceForType(type) ==
  CASE Prefix[type] \in {"HmIPW-", "HmIP-", "ALPHA-IP-", "ELV-"} -> "HmIP-RF"
    [] Prefix[type] = "HMW"                                     -> "BidCos-Wired"
    [] Prefix[type] \in {"HM-CC-VG-", "INT-"}                   -> "VirtualDevices"
    [] OTHER                                                    -> "BidCos-RF"

\* masterModelFor.
ModelFor(type) ==
  CASE InterfaceForType(type) = "HmIP-RF"        -> "HmIP"
    [] InterfaceForType(type) = "VirtualDevices" -> "none"
    [] OTHER                                     -> "BidCos"

Modelled(a, kind) == kind = "MASTER" /\ masterModel /\ ModelFor(TypeOf[a]) # "none"

\* putMasterModel: what a write leaves of the stored configuration.  hmipserver
\* stores what it is given; rfd stores what it can use and what is new.
HmipWrite(desc, write, before) ==
  LET kept == {p \in DOMAIN write : p \in DOMAIN desc => desc[p].write}
  IN Over([p \in kept |-> IF p \in DOMAIN desc THEN HmipStored(write[p], desc[p]) ELSE write[p]],
          before)

BidcosWrite(desc, write, before) ==
  LET current == Over(before, Defaults(desc))
      new(p, v) == v # NoValue /\ (p \in DOMAIN current => ~SameValue(current[p], v))
      kept == {p \in DOMAIN write \cap DOMAIN desc :
                 desc[p].write /\ new(p, BidcosStored(write[p], desc[p]))}
  IN Over([p \in kept |-> BidcosStored(write[p], desc[p])], before)

\* putMasterModel.  The faults it answers and CONFIG_PENDING, which it raises
\* and clears, are in DeviceTimers.
PutMasterModel(a, write) ==
  LET key == <<a, "MASTER">>
      desc == ParamDesc[a]["MASTER"]
      hmip == ModelFor(TypeOf[a]) = "HmIP"
  IN /\ Described(a, "MASTER")
     /\ overrides' = Entered(overrides, key, IF hmip THEN HmipWrite(desc, write, OverridesOf(key))
                                             ELSE BidcosWrite(desc, write, OverridesOf(key)))
     /\ dirty' = dirty \cup {key}
     /\ poisoned' = poisoned \cup (IF hmip /\ ~(DOMAIN write \subseteq DOMAIN desc) THEN {a} ELSE {})
     /\ UNCHANGED <<masterModel, devices, compiled, links, linkInfo, metadata, suppressed, unreaching>>

\* A value is stored, and what the device reports of it as well.
Written(type, p, v, now) ==
  LET stored == Entered(now, p, v) IN Over(ComputeEvents(type, p, v, stored), stored)

\* What a paramset holds once the parameters of order that are in own are
\* written one after the other.
AfterWrites(type, order, own, before) ==
  LET now[i \in 0 .. Len(order)] ==
        IF i = 0 THEN before
        ELSE IF order[i] \in DOMAIN own THEN Written(type, order[i], own[order[i]], now[i - 1])
        ELSE now[i - 1]
  IN now[Len(order)]

\* putParamset without a model.  The parameters of a write are a map, so they
\* come in any order.
PutEach(a, kind, write, force) ==
  LET key == <<a, kind>>
      desc == ParamDesc[a][kind]
  IN \E order \in SetToSeqs(DOMAIN write) :
       LET taken == Taken(desc, order, write, force)
           own == [p \in taken |-> Stored(write[p], desc[p])]
       IN /\ Described(a, kind)
          /\ overrides' =
               IF taken = {} THEN overrides
               ELSE Entered(overrides, key, AfterWrites(TypeOf[a], order, own, OverridesOf(key)))
          /\ dirty' = Dirtied(key, taken, write)
          /\ UNCHANGED <<modelVars, devices, compiled, links, linkInfo, metadata, suppressed, unreaching>>

\* putParamset; any other kind is the address of a peer (PutLinkParamset).
PutParamset(a, kind, write, force) ==
  /\ kind \in {"VALUES", "MASTER", "LINK"}
  /\ \/ Modelled(a, kind) /\ PutMasterModel(a, write)
     \/ ~Modelled(a, kind) /\ PutEach(a, kind, write, force)

\* setValue: a combined parameter is expanded first.
SetValue(a, p, v, force) ==
  PutParamset(a, "VALUES", IF IsConvertable(p) THEN Expanded(p, v) ELSE Named({p}, v), force)

\* setMaintenanceValue, whether the device is there or not.
Maintain(a, p, v) ==
  LET key == <<a, "VALUES">> IN
  /\ overrides' = Entered(overrides, key, Entered(OverridesOf(key), p, v))
  /\ dirty' = dirty \cup {key}

\* SetDeviceUnreachable up to its lookup: recovering leaves the latch.
Unreach(a, flag) ==
  /\ a \in devices
  /\ unreaching' = unreaching \cup
       {<<a, <<<<"UNREACH", Bool(flag)>>>> \o (IF flag THEN <<<<"STICKY", Bool(TRUE)>>>> ELSE <<>>)>>}
  /\ UNCHANGED <<modelVars, devices, overrides, compiled, dirty, links, linkInfo, metadata, suppressed>>

\* SetDeviceUnreachable from there on, one value after the other.
UnreachWrite ==
  \E call \in unreaching :
    LET rest == Tail(call[2]) IN
    /\ unreaching' = (unreaching \ {call}) \cup (IF rest = <<>> THEN {} ELSE {<<call[1], rest>>})
    /\ Maintain(call[1], Head(call[2])[1], Head(call[2])[2])
    /\ UNCHANGED <<modelVars, devices, compiled, links, linkInfo, metadata, suppressed>>

\* SuppressServiceMessage; NoValue stands for every parameter.
Suppress(a, p, on) ==
  LET now == IF a \in DOMAIN suppressed THEN suppressed[a] ELSE {}
      named == IF p = NoValue THEN Raised ELSE {p}
  IN /\ suppressed' =
          CASE on           -> Entered(suppressed, a, now \cup named)
            [] ~on /\ p = NoValue -> Restrict(suppressed, DOMAIN suppressed \ {a})
            [] OTHER        -> Restrict([b \in DOMAIN suppressed \cup {a} |->
                                           IF b = a THEN now \ named ELSE suppressed[b]],
                                        DOMAIN suppressed)
     /\ UNCHANGED <<modelVars, devices, overrides, compiled, dirty, links, linkInfo, metadata, unreaching>>

-----------------------------------------------------------------------------
(* Links and metadata                                                      *)

\* AddLink: a link that is there stays as it is.
AddLink(s, r) ==
  /\ <<s, r>> \notin DOMAIN links
  /\ links' = Entered(links, <<s, r>>, IF Described(s, "LINK") THEN Defaults(ParamDesc[s]["LINK"])
                                       ELSE <<>>)
  /\ UNCHANGED <<modelVars, devices, overrides, compiled, dirty, linkInfo, metadata, suppressed, unreaching>>

\* RemoveLink leaves the name of the link behind.
RemoveLink(s, r) ==
  /\ links' = Restrict(links, DOMAIN links \ {<<s, r>>})
  /\ UNCHANGED <<modelVars, devices, overrides, compiled, dirty, linkInfo, metadata, suppressed, unreaching>>

\* PutLinkParamset makes the link it does not find, and converts nothing.
PutLinkParamset(s, r, write) ==
  /\ links' = Entered(links, <<s, r>>,
                      Over(write, IF <<s, r>> \in DOMAIN links THEN links[<<s, r>>] ELSE <<>>))
  /\ UNCHANGED <<modelVars, devices, overrides, compiled, dirty, linkInfo, metadata, suppressed, unreaching>>

\* SetLinkInfo.
SetLinkInfo(s, r, name) ==
  /\ <<s, r>> \in DOMAIN links
  /\ linkInfo' = Entered(linkInfo, <<s, r>>, name)
  /\ UNCHANGED <<modelVars, devices, overrides, compiled, dirty, links, metadata, suppressed, unreaching>>

\* SetMetadata.
SetMetadata(object, field, v) ==
  /\ metadata' = Entered(metadata, <<object, field>>, v)
  /\ UNCHANGED <<modelVars, devices, overrides, compiled, dirty, links, linkInfo, suppressed, unreaching>>

\* Mutation: what was dirty stays dirty when its address goes.
DirtyAfterKept(gone) == dirty

DirtyAfter(gone) == {k \in dirty : k[1] \notin gone \/ k[2] = "LINK"}

\* Mutation: a channel stays poisoned when it goes.
PoisonedAfterKept(gone) == poisoned

PoisonedAfter(gone) == poisoned \ gone

\* clearAddressCachesLocked for a set of addresses.  Links, their names, the
\* metadata and the suppressions stay.
Cleared(gone) ==
  LET kept(keys) == {k \in keys : k[1] \notin gone} IN
  /\ overrides' = Restrict(overrides, kept(DOMAIN overrides))
  /\ compiled' = Restrict(compiled, kept(DOMAIN compiled))
  /\ dirty' = DirtyAfter(gone)
  /\ poisoned' = PoisonedAfter(gone)
  /\ UNCHANGED <<masterModel, links, linkInfo, metadata, suppressed, unreaching>>

\* What json keeps of the paramsets: whole numbers come back as floats.
AsJson(all) ==
  [key \in DOMAIN all |->
     [p \in DOMAIN all[key] |->
        IF all[key][p].type = "int" THEN [all[key][p] EXCEPT !.type = "real"] ELSE all[key][p]]]

\* NewRPCFunctions: a fresh store with the paramsets of the file.
Loaded(from, saved) ==
  /\ devices' = from
  /\ overrides' = saved
  /\ compiled' = <<>>
  /\ dirty' = {}
  /\ links' = <<>>
  /\ linkInfo' = <<>>
  /\ metadata' = <<>>
  /\ suppressed' = <<>>
  /\ poisoned' = {}
  /\ unreaching' = {}
  /\ UNCHANGED masterModel

StoreInit ==
  /\ devices \in SUBSET Addresses
  /\ overrides = <<>>
  /\ compiled = <<>>
  /\ dirty = {}
  /\ links = <<>>
  /\ linkInfo = <<>>
  /\ metadata = <<>>
  /\ suppressed = <<>>
  /\ masterModel \in BOOLEAN
  /\ poisoned = {}
  /\ unreaching = {}

\* Whatever was written, refused half way, deleted, added again or reloaded:
\* a paramset that is served from the cache is what a read would put together
\* now, only described paramsets are cached, and no ACTION is ever read back
\* (GetParamset, putParamset, clearAddressCachesLocked).
ReadsAreFresh ==
  /\ \A key \in DOMAIN compiled :
       /\ Described(key[1], key[2])
       /\ Read(key[1], key[2]) = Answer(key)
  /\ \A key \in DOMAIN overrides :
       key[2] = "VALUES" => \A p \in DOMAIN overrides[key] : ~IsAction(ParamDesc[key[1]][key[2]], p)

\* Whatever the order of configuration writes, deletions and restarts: a
\* channel that is poisoned holds a parameter it does not have, and what an
\* interface process stores under its write model it takes back as it is: a
\* client that writes what it read changes nothing (putMasterModel,
\* clearAddressCachesLocked).
MasterSound ==
  /\ \A a \in poisoned : ~(DOMAIN OverridesOf(<<a, "MASTER">>) \subseteq DOMAIN ParamDesc[a]["MASTER"])
  /\ \A key \in DOMAIN overrides : Modelled(key[1], key[2]) =>
       LET desc == ParamDesc[key[1]]["MASTER"]
           stored == overrides[key]
           hmip == ModelFor(TypeOf[key[1]]) = "HmIP"
       IN \A p \in DOMAIN stored :
            IF p \in DOMAIN desc
            THEN LET again == IF hmip THEN HmipStored(stored[p], desc[p])
                              ELSE BidcosStored(stored[p], desc[p])
                 IN again # NoValue /\ SameValue(again, stored[p])
            ELSE hmip

\* Both: nothing a client reads of the store is stale or cannot be written back
\* (GetParamset, putParamset, putMasterModel).
StoreSound == ReadsAreFresh /\ MasterSound
=============================================================================
