------------------------------ MODULE HidParser ------------------------------
(***************************************************************************)
(* The report-descriptor parser of drivers/hid/hid-core.c.  A descriptor   *)
(* is read twice: hid_scan_report looks for the usages that decide which   *)
(* driver gets the device and ignores every error, hid_open_report then    *)
(* builds collections, reports and fields, and rejects the descriptor at   *)
(* the first error.  One step is one item of the descriptor.               *)
(*                                                                         *)
(* A usage is page * Half + id, as in the code with Half = 2^16; the pages *)
(* the code names are renumbered, in their order, so that usages stay      *)
(* small.  Left out: allocation failures, units, the report_fixup of a     *)
(* driver and the quirk of one keyboard cover in hid_scan_collection.      *)
(***************************************************************************)
EXTENDS Integers, Sequences, FiniteSets, SequencesExt

CONSTANTS
  Devices,       \* descriptors, sequences of items, with a vendor each
  MaxUsages,     \* HID_MAX_USAGES: of one main item
  MaxFields,     \* HID_MAX_FIELDS: of one report
  MaxIds,        \* HID_MAX_IDS
  MaxBits,       \* bits of the longest report the transport takes
  StackSize,     \* HID_GLOBAL_STACK_SIZE
  Half,          \* ids in a usage page
  LongSign       \* 2^31: the sign of four bytes

ASSUME ParserAssumption ==
  /\ {MaxUsages, MaxFields, MaxIds, MaxBits, StackSize} \subseteq Nat \ {0}
  /\ Half \in Nat /\ Half > 61
  /\ LongSign \in Nat /\ LongSign >= 2^15
  /\ \A d \in Devices :
       d.rdesc \in Seq([type : STRING, tag : STRING, data : Nat, size : Nat])

VARIABLES
  rdesc,        \* the descriptor of the device
  vendor,       \* "wacom", "synaptics" or "other"
  at,           \* index of the next item
  phase,        \* "scan", "parse", "parsed", "rejected" or, in HidReport, "ready"
  group,        \* hid->group: what the scan chose
  flags,        \* parser->scan_flags
  global,       \* parser->global
  stack,        \* parser->global_stack
  local,        \* parser->local
  open,         \* parser->collection_stack
  collections,  \* device->collection; parent 0 stands for -1
  reports       \* the report lists of all types, in the order of registration

parserVars == <<global, stack, local, open>>
deviceVars == <<collections, reports>>
scanVars   == <<group, flags>>
hidVars    == <<rdesc, vendor, at, phase, group, flags, global, stack, local,
                open, collections, reports>>

\* Pages and usages the code looks for.
GenDesk    == 1
Keyboard   == 7
Digitizer  == 13
Sensor     == 32
Vendor     == 60
Google     == 61
Pointer    == GenDesk * Half + 1
Multiplier == GenDesk * Half + 8
RollOver   == Keyboard * Half + 1
ContactId  == Digitizer * Half + 9
Blob       == Vendor * Half + 5
Status     == Vendor * Half + 6
Vivaldi    == Google * Half + 1

Global0 == [page |-> 0, lmin |-> 0, lmax |-> 0, pmin |-> 0, pmax |-> 0,
            exponent |-> 0, size |-> 0, count |-> 0, id |-> 0]
Local0  == [usages |-> <<>>, min |-> 0, depth |-> 0, branch |-> 0]

\* item_udata and item_sdata: the data of an item by its size in bytes.
UData(i) == IF i.size = 0 THEN 0 ELSE i.data
SData(i) ==
  LET sign == CASE i.size = 1 -> 2^7 [] i.size = 2 -> 2^15
                [] i.size = 4 -> LongSign [] OTHER -> 0
  IN IF sign > 0 /\ UData(i) >= sign THEN UData(i) - 2 * sign ELSE UData(i)

\* Unsigned data kept in an s32: what needs all four bytes turns negative.
Kept32(i) == IF i.size = 4 THEN SData(i) ELSE UData(i)

\* snto32: the low n bits of a value as a signed number.
Snto32(v, n) == IF n = 0 THEN 0 ELSE IF v >= 2^(n - 1) THEN v - 2^n ELSE v

Fresh(p) ==     \* a parser allocated by vzalloc, at the first item
  /\ phase' = p /\ at' = 1
  /\ global' = Global0 /\ stack' = <<>> /\ local' = Local0 /\ open' = <<>>

ParserInit ==
  /\ \E d \in Devices : rdesc = d.rdesc /\ vendor = d.vendor
  /\ at = 1 /\ phase = "scan"
  /\ group = "generic" /\ flags = {}
  /\ global = Global0 /\ stack = <<>> /\ local = Local0 /\ open = <<>>
  /\ collections = <<>> /\ reports = <<>>

\* fetch_item gives an item; a truncated one ends the loop like the end does.
Item == rdesc[at]
Fetched(p, type) ==
  /\ phase = p /\ at <= Len(rdesc) /\ Item.type = type
  /\ UNCHANGED <<rdesc, vendor>>
Exhausted(p) ==
  /\ phase = p /\ (at <= Len(rdesc) => Item.type = "truncated")
  /\ UNCHANGED <<rdesc, vendor>>
Advance == at' = at + 1 /\ UNCHANGED phase

-----------------------------------------------------------------------------
\* hid_parser_global.
BadGlobal(i) ==
  \/ i.tag = "push" /\ Len(stack) = StackSize
  \/ i.tag = "pop" /\ stack = <<>>
  \/ i.tag = "report_size" /\ UData(i) > 256
  \/ i.tag = "report_count" /\ UData(i) > MaxUsages
  \/ i.tag = "report_id" /\ (UData(i) = 0 \/ UData(i) >= MaxIds)
  \/ i.tag = "unknown"

Exponent(raw) == IF raw \in 0..15 THEN Snto32(raw, 4) ELSE raw

AfterGlobal(i) ==
  CASE i.tag = "usage_page"   -> [global EXCEPT !.page = UData(i)]
    [] i.tag = "logical_min"  -> [global EXCEPT !.lmin = SData(i)]
    [] i.tag = "logical_max"  -> [global EXCEPT !.lmax =
                                    IF global.lmin < 0 THEN SData(i) ELSE Kept32(i)]
    [] i.tag = "physical_min" -> [global EXCEPT !.pmin = SData(i)]
    [] i.tag = "physical_max" -> [global EXCEPT !.pmax =
                                    IF global.pmin < 0 THEN SData(i) ELSE Kept32(i)]
    [] i.tag = "exponent"     -> [global EXCEPT !.exponent = Exponent(SData(i))]
    [] i.tag = "report_size"  -> [global EXCEPT !.size = UData(i)]
    [] i.tag = "report_count" -> [global EXCEPT !.count = UData(i)]
    [] i.tag = "report_id"    -> [global EXCEPT !.id = UData(i)]
    [] i.tag = "pop" /\ stack # <<>> -> Last(stack)
    [] OTHER -> global

AfterStack(i) ==
  CASE i.tag = "push" /\ ~BadGlobal(i) -> Append(stack, global)
    [] i.tag = "pop" /\ ~BadGlobal(i)  -> Front(stack)
    [] OTHER -> stack

GlobalItem ==
  /\ global' = AfterGlobal(Item) /\ stack' = AfterStack(Item)
  /\ UNCHANGED <<local, open>>

-----------------------------------------------------------------------------
\* complete_usage: the id of a usage under the current page.
Complete(u) == (u % Half) + (global.page % Half) * Half

\* The entry hid_add_usage writes. Outside of any collection it names the
\* first one.
NewUsage(u, size) ==
  [hid  |-> IF size <= 2 THEN Complete(u) ELSE u, size |-> size,
   coll |-> IF open = <<>> THEN 1 ELSE Last(open)]

Used == Len(local.usages)

\* The last usage of a range. The count of the range is unsigned: one that
\* ends before it starts wraps around and is far too long.
Exceeds(i) == LET sum == UData(i) - local.min + Used
              IN sum < 0 \/ sum >= MaxUsages
RangeEnd(i) == IF Exceeds(i) THEN MaxUsages - Used + local.min - 1 ELSE UData(i)
Ranged(i) == [n \in 1..(RangeEnd(i) - local.min + 1) |->
                NewUsage(local.min + n - 1, i.size)]

\* hid_parser_local. Only the first set of usages between delimiters counts.
Ignored == local.branch > 1

BadLocal(i) ==
  \/ i.tag = "delimiter" /\ UData(i) # 0 /\ local.depth # 0
  \/ i.tag = "delimiter" /\ UData(i) = 0 /\ local.depth < 1
  \/ i.tag = "usage" /\ ~Ignored /\ Used >= MaxUsages
  \/ i.tag = "usage_max" /\ ~Ignored /\ Exceeds(i) /\ RangeEnd(i) <= 0

AfterLocal(i) ==
  IF BadLocal(i) THEN local
  ELSE CASE i.tag = "delimiter" /\ UData(i) # 0 ->
              [local EXCEPT !.depth = @ + 1, !.branch = @ + 1]
         [] i.tag = "delimiter" /\ UData(i) = 0 -> [local EXCEPT !.depth = @ - 1]
         [] i.tag = "usage" /\ ~Ignored ->
              [local EXCEPT !.usages = Append(@, NewUsage(UData(i), i.size))]
         [] i.tag = "usage_min" /\ ~Ignored -> [local EXCEPT !.min = UData(i)]
         [] i.tag = "usage_max" /\ ~Ignored -> [local EXCEPT !.usages = @ \o Ranged(i)]
         [] OTHER -> local

LocalItem == local' = AfterLocal(Item) /\ UNCHANGED <<global, stack, open>>

\* hid_concatenate_last_usage_page: from the last usage backwards, up to one
\* that is already of the page.
Short(u) == u.size <= 2
Concatenated ==
  LET us == local.usages
      OfPage(k) == Short(us[k]) /\ us[k].hid \div Half = global.page
  IN [k \in DOMAIN us |->
        IF Short(us[k]) /\ \A j \in k..Len(us) : ~OfPage(j)
        THEN [us[k] EXCEPT !.hid = Complete(@)] ELSE us[k]]
Hids == {Concatenated[k].hid : k \in DOMAIN local.usages}

\* The flags of a field's main item.
Constant(i) == UData(i) % 2 = 1
Variable(i) == (UData(i) \div 2) % 2 = 1

-----------------------------------------------------------------------------
(* hid_scan_report: every error is ignored.                                *)

\* hid_scan_collection.
ScanCollection(i) ==
  /\ group' = CASE global.page = Google /\ Vivaldi \in Hids -> "vivaldi"
                [] global.page = Sensor /\ UData(i) \in {0, 1} -> "sensor_hub"
                [] OTHER -> group
  /\ flags' = flags
       \cup {f \in {"pointer"} : global.page = GenDesk /\ Pointer \in Hids}
       \cup {f \in {"vendor"} : global.page >= Vendor}

\* Mutant of ScanInput: constant inputs count.
ScanInputConstant(i) ==
  /\ group' = IF ContactId \in Hids THEN "multitouch" ELSE group
  /\ UNCHANGED flags

\* hid_scan_input_usage of every usage of an input that is not constant.
ScanInput(i) ==
  /\ group' = IF ~Constant(i) /\ ContactId \in Hids THEN "multitouch" ELSE group
  /\ UNCHANGED flags

\* hid_scan_feature_usage.
ScanFeature ==
  /\ flags' = flags \cup
       {f \in {"win8"} : /\ global.size = 8
                         /\ \/ Blob \in Hids /\ global.count = 256
                            \/ Status \in Hids /\ global.count = 1}
  /\ UNCHANGED group

ScanMain ==
  /\ Fetched("scan", "main")
  /\ \/ Item.tag = "collection" /\ ScanCollection(Item)
     \/ Item.tag = "input" /\ ScanInput(Item)
     \/ Item.tag = "feature" /\ ScanFeature
     \/ Item.tag \notin {"collection", "input", "feature"} /\ UNCHANGED scanVars
  /\ local' = Local0
  /\ Advance /\ UNCHANGED <<global, stack, open, deviceVars>>

ScanGlobal ==
  /\ Fetched("scan", "global") /\ GlobalItem
  /\ Advance /\ UNCHANGED <<scanVars, deviceVars>>

ScanLocal ==
  /\ Fetched("scan", "local") /\ LocalItem
  /\ Advance /\ UNCHANGED <<scanVars, deviceVars>>

ScanReserved ==
  /\ Fetched("scan", "reserved") \/ Fetched("scan", "long")
  /\ Advance /\ UNCHANGED <<parserVars, scanVars, deviceVars>>

\* The flags and the vendor decide; hid_open_report starts a parser of its own.
ScanEnds ==
  /\ Exhausted("scan")
  /\ group' = LET g == IF "win8" \in flags /\ group = "multitouch"
                       THEN "multitouch_win8" ELSE group
              IN CASE vendor = "wacom" -> "wacom"
                   [] vendor = "synaptics" /\ g = "generic"
                        /\ {"vendor", "pointer"} \subseteq flags -> "rmi"
                   [] OTHER -> g
  /\ Fresh("parse") /\ UNCHANGED <<flags, deviceVars>>

-----------------------------------------------------------------------------
(* hid_parse_collections.  Rejecting a descriptor closes what it built.    *)

Rejected ==     \* with hid_close_report
  /\ phase' = "rejected" /\ collections' = <<>> /\ reports' = <<>>
  /\ UNCHANGED <<at, parserVars, scanVars>>

\* Each main item ends with a clear local state.
MainDone == local' = Local0 /\ Advance /\ UNCHANGED <<global, stack, scanVars>>

ParseGlobal ==
  /\ Fetched("parse", "global")
  /\ \/ BadGlobal(Item) /\ Rejected
     \/ ~BadGlobal(Item) /\ GlobalItem /\ Advance /\ UNCHANGED <<scanVars, deviceVars>>

ParseLocal ==
  /\ Fetched("parse", "local")
  /\ \/ BadLocal(Item) /\ Rejected
     \/ ~BadLocal(Item) /\ LocalItem /\ Advance /\ UNCHANGED <<scanVars, deviceVars>>

ParseReserved ==
  /\ Fetched("parse", "reserved")
  /\ Advance /\ UNCHANGED <<parserVars, scanVars, deviceVars>>

ParseLong == Fetched("parse", "long") /\ Rejected

\* open_collection: types 0, 1 and 2 are physical, application and logical.
OpenCollection(type, usage) ==
  /\ open' = Append(open, Len(collections) + 1)
  /\ collections' = Append(collections,
       [type |-> type, usage |-> usage, level |-> Len(open),
        parent |-> IF open = <<>> THEN 0 ELSE Last(open)])

BeginCollection ==
  /\ Fetched("parse", "main") /\ Item.tag = "collection"
  /\ OpenCollection(UData(Item), IF Used = 0 THEN 0 ELSE Concatenated[1].hid)
  /\ MainDone /\ UNCHANGED reports

\* close_collection.
EndCollection ==
  /\ Fetched("parse", "main") /\ Item.tag = "end_collection"
  /\ \/ open = <<>> /\ Rejected
     \/ open # <<>> /\ open' = Front(open) /\ MainDone /\ UNCHANGED deviceVars

OtherMain ==
  /\ Fetched("parse", "main") /\ Item.tag = "unknown"
  /\ MainDone /\ UNCHANGED <<open, deviceVars>>

\* hid_lookup_collection: the usage of the innermost open one of a type.
LookupCollection(type) ==
  LET found == {k \in DOMAIN open : collections[open[k]].type = type}
  IN IF found = {} THEN 0 ELSE collections[open[Max(found)]].usage

\* hid_register_report: the report of this type and id, new if there is none.
ReportOf(type, id) == {r \in DOMAIN reports : reports[r].type = type /\ reports[r].id = id}
Registered(type) ==
  IF ReportOf(type, global.id) # {} THEN reports
  ELSE Append(reports, [type |-> type, id |-> global.id, size |-> 0,
                        application |-> LookupCollection(1), fields |-> <<>>])

\* The logical range of hid_add_field: the maximum is unsigned when the
\* minimum is not negative.
BadRange ==
  IF global.lmin < 0 THEN global.lmax < global.lmin
  ELSE global.lmax >= 0 /\ global.lmax < global.lmin

\* The field hid_add_field makes. Values beyond the usages share the last one.
NewField(i, offset) ==
  LET usages == Max({Used, global.count})
      Source(k) == Concatenated[Min({k, Used})]
  IN [usages |-> [k \in 1..usages |-> [hid |-> Source(k).hid, coll |-> Source(k).coll,
                                       multiplier |-> 1]],
      constant |-> Constant(i), variable |-> Variable(i),
      physical |-> LookupCollection(0), logical |-> LookupCollection(2),
      offset |-> offset, size |-> global.size, count |-> global.count,
      lmin |-> global.lmin, lmax |-> global.lmax,
      pmin |-> global.pmin, pmax |-> global.pmax, exponent |-> global.exponent,
      value |-> [k \in 1..usages |-> 0]]

\* hid_register_field: no field beyond the limit, and no error.
WithField(r, f) == IF Len(r.fields) = MaxFields THEN r
                   ELSE [r EXCEPT !.fields = Append(@, f)]

\* Mutant of Grown: the size of one value only.
GrownOnce(r) == [r EXCEPT !.size = @ + global.size]

\* hid_add_field. Items without usages are padding: they only take space.
Grown(r) == [r EXCEPT !.size = @ + global.size * global.count]
AddField(type) ==
  LET with == Registered(type)
      k == CHOOSE r \in DOMAIN with : with[r].type = type /\ with[r].id = global.id
      grown == Grown(with[k])
      bad == BadRange \/ grown.size > MaxBits
  IN /\ Fetched("parse", "main") /\ Item.tag = type
     /\ \/ bad /\ Rejected
        \/ /\ ~bad
           /\ reports' = [with EXCEPT ![k] =
                 IF Used = 0 THEN grown
                 ELSE WithField(grown, NewField(Item, with[k].size))]
           /\ MainDone /\ UNCHANGED <<open, collections>>

-----------------------------------------------------------------------------
(* Resolution multipliers: feature controls that scale inputs.             *)

\* A collection, the first one also where a descriptor opens none, and those
\* around it.
CollectionAt(k) == IF k \in DOMAIN collections THEN collections[k]
                   ELSE [type |-> 0, usage |-> 0, level |-> 0, parent |-> 0]
Around ==
  LET up[k \in 0..Len(collections)] ==
        IF k = 0 THEN {} ELSE {k} \cup up[collections[k].parent]
  IN up
Enclosing(k) == IF k \in DOMAIN collections THEN Around[k] ELSE {k}

\* The innermost logical collection, 0 if there is none.
LogicalOf(k) == LET found == {c \in Enclosing(k) : CollectionAt(c).type = 2}
                IN IF found = {} THEN 0 ELSE Max(found)

\* hid_calculate_multiplier; division of C truncates.
Magnitude(a) == IF a < 0 THEN -a ELSE a
Quotient(a, b) == LET q == Magnitude(a) \div Magnitude(b)
                  IN IF (a < 0) = (b < 0) THEN q ELSE -q
Calculated(f) ==
  LET steps == Quotient(f.value[1] - f.lmin, f.lmax - f.lmin)
      m == steps * (f.pmax - f.pmin) + f.pmin
  IN IF f.lmax = f.lmin \/ m = 0 \/ m > 255 \/ m < -255 THEN 1 ELSE m

\* What an s8 keeps of it.
S8(m) == ((m + 128) % 256) - 128

\* Mutant of Applies: not from a collection around the usage's own.
AppliesDirectly(mc, c) == mc = 0 \/ (mc = c /\ CollectionAt(mc).parent # 0)

\* Whether a multiplier with logical collection mc applies to a usage in c, as
\* the loop of hid_apply_multiplier_to_field decides: never at the top level.
Applies(mc, c) == mc = 0 \/ (mc \in Enclosing(c) /\ CollectionAt(mc).parent # 0)

\* The multiplier fields of a report list, one entry for each usage that makes
\* them one, in the order hid_setup_resolution_multiplier meets them.
Multipliers(rs) ==
  LET Markers(f) == {n \in DOMAIN f.usages : f.usages[n].hid = Multiplier}
      OfField(f) == IF f.count < 1 THEN <<>> ELSE [k \in 1..Cardinality(Markers(f)) |-> f]
      OfReport(r) == FlattenSeq([k \in DOMAIN r.fields |-> OfField(r.fields[k])])
  IN FlattenSeq([k \in DOMAIN rs |->
                  IF rs[k].type = "feature" THEN OfReport(rs[k]) ELSE <<>>])

\* hid_apply_multiplier to every input usage, the last multiplier winning.
ScaledUsage(ms, u) ==
  LET applied == {k \in DOMAIN ms : Applies(LogicalOf(ms[k].usages[1].coll), u.coll)}
  IN IF applied = {} THEN u
     ELSE [u EXCEPT !.multiplier = S8(Calculated(ms[Max(applied)]))]
ScaledField(ms, f) ==
  [f EXCEPT !.usages = [k \in DOMAIN @ |-> ScaledUsage(ms, @[k])]]
Scaled(rs) ==
  LET ms == Multipliers(rs)
  IN [r \in DOMAIN rs |-> IF rs[r].type # "input" THEN rs[r]
        ELSE [rs[r] EXCEPT !.fields = [k \in DOMAIN @ |-> ScaledField(ms, @[k])]]]

\* The end of the descriptor: nothing left over, nothing left open.
ParseEnds ==
  LET bad == at <= Len(rdesc) \/ rdesc = <<>> \/ open # <<>> \/ local.depth # 0
  IN /\ Exhausted("parse")
     /\ \/ bad /\ Rejected
        \/ /\ ~bad
           /\ reports' = Scaled(reports)
           /\ phase' = "parsed"
           /\ UNCHANGED <<at, parserVars, scanVars, collections>>

\* hid_close_report when the driver goes, and hid_open_report of the next one.
Reopen ==
  /\ phase \in {"parsed", "rejected", "ready"}
  /\ collections' = <<>> /\ reports' = <<>>
  /\ Fresh("parse")
  /\ UNCHANGED <<rdesc, vendor, scanVars>>

ParserNext ==
  \/ ScanMain \/ ScanGlobal \/ ScanLocal \/ ScanReserved \/ ScanEnds
  \/ ParseGlobal \/ ParseLocal \/ ParseReserved \/ ParseLong
  \/ BeginCollection \/ EndCollection \/ OtherMain
  \/ \E type \in {"input", "output", "feature"} : AddField(type)
  \/ ParseEnds

-----------------------------------------------------------------------------
(* What the rest of the kernel takes for granted about a parsed device.    *)

Open == phase \in {"parsed", "ready"}

\* The fields of a report lie one after another inside it, and a report fits
\* the transport's buffer: values of two fields never share a bit.
Extent(f) == f.offset + f.size * f.count
FieldsFit(r) ==
  /\ r.size <= MaxBits
  /\ \A k \in DOMAIN r.fields :
       /\ Extent(r.fields[k]) <= r.size
       /\ \A j \in 1..k - 1 : Extent(r.fields[j]) <= r.fields[k].offset

\* Every value of a field has a usage, and every usage a collection.
UsagesFit(r) ==
  \A k \in DOMAIN r.fields :
    /\ 1..r.fields[k].count \subseteq DOMAIN r.fields[k].usages
    /\ \A u \in Range(r.fields[k].usages) : u.coll \in DOMAIN collections \cup {1}

\* The collections form a forest in the order of the descriptor: a parent comes
\* before what it contains, and everything between lies in the parent too.
CollectionsNest ==
  \A c \in DOMAIN collections :
    LET p == collections[c].parent
    IN /\ p < c
       /\ collections[c].level = (IF p = 0 THEN 0 ELSE collections[p].level + 1)
       /\ \A d \in p + 1..c - 1 : collections[d].parent >= p

\* No input, output or walk over the collections leaves the arrays the parser
\* built, whatever the descriptor was.
LayoutSound == Open => (CollectionsNest /\ \A r \in Range(reports) : FieldsFit(r) /\ UsagesFit(r))

\* hid_scan_report has chosen the group, and with it the driver, from the
\* fields the parser then builds: multitouch for a contact identifier among
\* the inputs, certified for the blob or the status among the features.
\* (Fields beyond the limit of a report exist for the scan only.)
HasField(type, Fits(_)) ==
  \E r \in Range(reports) : r.type = type /\ \E f \in Range(r.fields) : Fits(f)
Uses(f, hid) == \E u \in Range(f.usages) : u.hid = hid
Full == \E r \in Range(reports) : Len(r.fields) = MaxFields
IsMultitouch == HasField("input", LAMBDA f : ~f.constant /\ Uses(f, ContactId))
IsCertified == HasField("feature", LAMBDA f : f.size = 8 /\
                 ((Uses(f, Status) /\ f.count = 1) \/ (Uses(f, Blob) /\ f.count = 256)))
ScanAgrees ==
  (Open /\ ~Full /\ vendor # "wacom" /\ group \notin {"sensor_hub", "vivaldi"}) =>
    /\ IsMultitouch = (group \in {"multitouch", "multitouch_win8"})
    /\ (IsMultitouch /\ IsCertified) = (group = "multitouch_win8")

\* The input usages, and the multipliers defined for one of them: "contained in
\* the same Logical Collection" as it, or in none. An s8 keeps those that fit.
InputUsages == UNION {UNION {Range(f.usages) : f \in Range(r.fields)} :
                        r \in {t \in Range(reports) : t.type = "input"}}
Features == UNION {Range(r.fields) : r \in {t \in Range(reports) : t.type = "feature"}}
LogicalOfField(f) == LogicalOf(f.usages[1].coll)
Scaling(u) == {f \in Features : /\ f.count > 0 /\ Uses(f, Multiplier)
                                /\ LogicalOfField(f) \in Enclosing(u.coll) \cup {0}}
Fits(f)   == Calculated(f) \in -128..127
Nested(f) == LogicalOfField(f) = 0 \/ CollectionAt(LogicalOfField(f)).parent # 0
ScaledAsDefined(u) == IF Scaling(u) = {} THEN u.multiplier = 1
                      ELSE \E f \in Scaling(u) : u.multiplier = Calculated(f)

\* "If no Resolution Multiplier is defined, then the Resolution Multiplier
\* defaults to 1", and otherwise it is what one of those defined gives; inputs
\* of one logical collection are scaled alike, also once a driver has them.
\* Left out: multipliers of a logical collection that no other contains, which
\* hid_apply_multiplier_to_field gives to none, and what an s8 does not keep.
SharedMultiplier ==
  /\ phase = "parsed" => \A u \in InputUsages :
       (\A f \in Scaling(u) : Nested(f) /\ Fits(f)) => ScaledAsDefined(u)
  /\ Open => \A u, v \in InputUsages :
       LogicalOf(u.coll) = LogicalOf(v.coll) => u.multiplier = v.multiplier
=============================================================================
