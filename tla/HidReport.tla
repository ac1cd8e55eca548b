------------------------------ MODULE HidReport ------------------------------
(***************************************************************************)
(* Reports of a parsed device in drivers/hid/hid-core.c: values taken out  *)
(* of a report's bits and into it, arrays of pressed keys reported by the  *)
(* difference to the report before, the order in which the values of one   *)
(* report are handed on, and requests a driver makes.  A step is one       *)
(* report, with driver_input_lock held (see HidDevice), or one request.    *)
(*                                                                         *)
(* Bytes have Byte bits, 8 in the code; buffers are sequences of bytes.    *)
(* hidinput, hiddev and hidraw are external: hidinput ranks the usages and *)
(* remembers which keys are down, hidraw may refuse a report.  Left out:   *)
(* BPF programs and the callbacks of drivers other than hid-generic.       *)
(***************************************************************************)
EXTENDS HidParser

CONSTANTS
  Byte,          \* bits in a byte
  Word,          \* bits of a u32
  WideMask,      \* what (1 << 32) - 1 gives for an int in the build
  Priorities,    \* usages_priorities hidinput gives
  Driven,        \* descriptors whose devices a driver binds (a bound)
  ClaimSets,     \* who claimed the device: subsets of {"input", "hiddev", "hidraw"}
  Payloads,      \* bytes a device sends
  Settings       \* values drivers set

ASSUME ReportAssumption ==
  /\ {Byte, Word} \subseteq Nat \ {0} /\ WideMask \in {0, 2^Word - 1}
  /\ Priorities \subseteq Int /\ Priorities # {} /\ Settings \subseteq Int
  /\ ClaimSets \subseteq SUBSET {"input", "hiddev", "hidraw"} /\ ClaimSets # {}

VARIABLES
  claimed,  \* hid->claimed
  order,    \* field_entry_list of each report
  held,     \* keys of arrays that are down for hidinput: <<report, field, usage>>
  told,     \* the last report processed and the events it gave
  sent      \* the last report put together for the device

reportVars == <<claimed, order, held, told, sent>>
vars == <<hidVars, claimed, order, held, told, sent>>

Quiet   == [report |-> 0, events |-> <<>>]
Nothing == [report |-> 0, data |-> <<>>]

Init ==
  /\ ParserInit
  /\ claimed = {} /\ order = <<>> /\ held = {} /\ told = Quiet /\ sent = Nothing

-----------------------------------------------------------------------------
(* Bits.  A value of n bits at an offset takes its byte and the following  *)
(* ones; Skip is the bits of it that lie before the k-th of them.          *)
Skip(offset, k) == IF k = 0 THEN 0 ELSE k * Byte - (offset % Byte)
Shift(offset, k) == IF k = 0 THEN offset % Byte ELSE 0
Clipped(n) == Min({n, Word})

\* hid_field_extract and __extract.
Extract(data, offset, size) ==
  LET n == Clipped(size)
      Piece(k) == (data[offset \div Byte + k + 1] \div 2^Shift(offset, k))
                    * 2^Skip(offset, k)
  IN MapThenSumSet(Piece, {k \in 0..n : Skip(offset, k) < n}) % 2^n

\* Mutant of Implement: what lies below the shift is lost.
ImplementFromZero(data, offset, size, value) ==
  LET n == Clipped(size)
      Put(k, old) ==
        LET sh   == Shift(offset, k)
            bits == Min({Byte - sh, n - Skip(offset, k)})
            high == 2^(sh + bits)
        IN ((value \div 2^Skip(offset, k)) % 2^bits) * 2^sh + (old \div high) * high
  IN [b \in DOMAIN data |->
        LET k == b - 1 - offset \div Byte
        IN IF k >= 0 /\ n > 0 /\ Skip(offset, k) < n THEN Put(k, data[b]) ELSE data[b]]

\* implement and __implement: whole bytes are overwritten from the shift up,
\* the last nibble is put between what surrounds it.
Implement(data, offset, size, value) ==
  LET n == Clipped(size)
      Put(k, old) ==
        LET sh   == Shift(offset, k)
            bits == Min({Byte - sh, n - Skip(offset, k)})
            high == 2^(sh + bits)
        IN (old % 2^sh) + ((value \div 2^Skip(offset, k)) % 2^bits) * 2^sh
             + (old \div high) * high
  IN [b \in DOMAIN data |->
        LET k == b - 1 - offset \div Byte
        IN IF k >= 0 /\ n > 0 /\ Skip(offset, k) < n THEN Put(k, data[b]) ELSE data[b]]

\* s32ton: values too large are cut to the largest of n bits.
S32ton(v, size) ==
  LET n == Clipped(size)
      a == v \div 2^(n - 1)
  IN CASE v = 0 \/ n = 0 -> 0
       [] v # 0 /\ n # 0 /\ a \notin {0, -1} ->
            IF v < 0 THEN 2^(n - 1) ELSE 2^(n - 1) - 1
       [] OTHER -> IF n = Word THEN v % (WideMask + 1) ELSE v % 2^n

\* The signed or unsigned reading of a field's bits, as an s32.
Value(f, raw) == IF f.lmin < 0 THEN Snto32(raw, Clipped(f.size))
                 ELSE IF raw >= 2^(Word - 1) THEN raw - 2^Word ELSE raw

\* hid_compute_report_size.
Bytes(r) == (r.size + Byte - 1) \div Byte

-----------------------------------------------------------------------------
\* hid_array_value_is_valid: the value minus the minimum indexes the usages.
Valid(f, v) == v \in f.lmin..f.lmax /\ v - f.lmin < Len(f.usages)
Index(f, v) == v - f.lmin + 1

\* hid_input_fetch_field.
Fetch(f, data) ==
  [n \in 1..f.count |-> Value(f, Extract(data, f.offset + (n - 1) * f.size, f.size))]
Overrun(f, new) ==   \* ErrorRollOver: too many keys are down
  ~f.variable /\ \E v \in Range(new) : Valid(f, v) /\ f.usages[Index(f, v)].hid = RollOver

Event(k, u, v) == [field |-> k, usage |-> u, value |-> v]

\* hid_input_array_field: what went away and what came, place by place.
Before(f) == {f.value[n] : n \in 1..f.count}
ArrayEvents(k, f, new) ==
  LET Gone(n) == Valid(f, f.value[n]) /\ f.value[n] \notin Range(new)
      Came(n) == Valid(f, new[n]) /\ new[n] \notin Before(f)
      At(n) == (IF Gone(n) THEN <<Event(k, Index(f, f.value[n]), 0)>> ELSE <<>>)
               \o (IF Came(n) THEN <<Event(k, Index(f, new[n]), 1)>> ELSE <<>>)
  IN IF Overrun(f, new) THEN <<>> ELSE FlattenSeq([n \in 1..f.count |-> At(n)])

\* hid_input_var_field.
VariableEvents(k, new) == [n \in DOMAIN new |-> Event(k, n, new[n])]

\* hid_process_report: by the priority list, or field by field without one.
EventsOf(r, data) ==
  LET F == reports[r].fields
      New(k) == Fetch(F[k], data)
      Entry(e) == IF F[e.field].variable
                  THEN <<Event(e.field, e.usage, New(e.field)[e.usage])>>
                  ELSE ArrayEvents(e.field, F[e.field], New(e.field))
      Field(k) == IF F[k].variable THEN VariableEvents(k, New(k))
                  ELSE ArrayEvents(k, F[k], New(k))
  IN IF order[r] # <<>> THEN FlattenSeq([e \in DOMAIN order[r] |-> Entry(order[r][e])])
     ELSE FlattenSeq([k \in DOMAIN F |-> Field(k)])

\* Mutant of Remembered: also after an overrun.
RememberedOverrun(f, data) ==
  [f EXCEPT !.value = [n \in DOMAIN @ |-> IF n <= f.count THEN Fetch(f, data)[n] ELSE @[n]]]

\* The values remembered for the next report; an overrun changes none.
Remembered(f, data) ==
  LET new == Fetch(f, data)
  IN IF Overrun(f, new) THEN f
     ELSE [f EXCEPT !.value = [n \in DOMAIN @ |-> IF n <= f.count THEN new[n] ELSE @[n]]]

\* hid_process_event: hidinput hears of it if it claimed the device.
Pressed(r, e) ==
  LET key == <<r, e.field, e.usage>>
  IN IF "input" \notin claimed \/ reports[r].fields[e.field].variable THEN {}
     ELSE {key}
Heard(h, r, e) == IF e.value = 0 THEN h \ Pressed(r, e) ELSE h \cup Pressed(r, e)

-----------------------------------------------------------------------------
\* Mutant of Insert: before the first entry that is not of higher priority.
InsertBeforeEqual(list, e) ==
  LET lower == {k \in DOMAIN list : e.priority >= list[k].priority}
  IN IF lower = {} THEN Append(list, e) ELSE InsertAt(list, Min(lower), e)

\* __hid_insert_field_entry: before the first entry of lower priority.
Insert(list, e) ==
  LET lower == {k \in DOMAIN list : e.priority > list[k].priority}
  IN IF lower = {} THEN Append(list, e) ELSE InsertAt(list, Min(lower), e)

\* hid_report_process_ordering: variables one by one, an array as a whole.
Entries(r, rank) ==
  LET Entry(k, u) == [field |-> k, usage |-> u, priority |-> rank[<<r, k, u>>]]
      Field(k) == [u \in 1..(IF reports[r].fields[k].variable
                             THEN reports[r].fields[k].count ELSE 1) |-> Entry(k, u)]
  IN FlattenSeq([k \in DOMAIN reports[r].fields |-> Field(k)])
Ordering(r, rank) == FoldLeft(Insert, <<>>, Entries(r, rank))

Inputs == {r \in DOMAIN reports : reports[r].type = "input"}
Ranked == UNION {UNION {{<<r, k, u>> : u \in DOMAIN reports[r].fields[k].usages} :
                          k \in DOMAIN reports[r].fields} : r \in Inputs}

\* Keys of an array that the zeros of a new field name count as down.
Keys(r, k) ==
  LET f == reports[r].fields[k]
  IN IF f.variable THEN {} ELSE {<<r, k, Index(f, v)>> : v \in {x \in Before(f) : Valid(f, x)}}
AllKeys == UNION {UNION {Keys(r, k) : k \in DOMAIN reports[r].fields} : r \in Inputs}

\* hid_connect: hidinput ranks the usages, then hid_process_ordering.
Connect ==
  /\ phase = "parsed" /\ rdesc \in Driven /\ phase' = "ready"
  /\ claimed' \in ClaimSets
  /\ \E rank \in [Ranked -> Priorities] :
       order' = [r \in DOMAIN reports |-> IF r \in Inputs THEN Ordering(r, rank) ELSE <<>>]
  /\ held' = (IF "input" \in claimed' THEN AllKeys ELSE {})
  /\ UNCHANGED <<rdesc, vendor, at, group, flags, parserVars, deviceVars, told, sent>>

-----------------------------------------------------------------------------
Numbered(type) == \E r \in Range(reports) : r.type = type /\ r.id # 0
RestOfDevice == UNCHANGED <<rdesc, vendor, at, phase, group, flags, parserVars, collections>>

\* hid_get_report: the first byte is the number if any report has one.
Received(type, buf) == ReportOf(type, IF Numbered(type) THEN buf[1] ELSE 0)

\* What hid_report_raw_event processes: size bytes of the buffer came from the
\* device, a short report is filled up with zeros.
Filled(data, size, need) == [b \in 1..need |-> IF b <= size THEN data[b] ELSE 0]

Process(r, data) ==
  /\ told' = [report |-> r, events |-> EventsOf(r, data)]
  /\ held' = FoldLeft(LAMBDA h, e : Heard(h, r, e), held, EventsOf(r, data))
  /\ reports' = [reports EXCEPT ![r].fields =
                   [k \in DOMAIN @ |-> Remembered(@[k], data)]]

\* hid_report_raw_event. An unknown report, one the buffer is too small for
\* and one hidraw refuses change nothing, and nothing is processed for a
\* device that hidraw alone has claimed. A report never exceeds the buffer of
\* the transport: the parser has refused it.
RawEvent(type, buf, size) ==
  LET header == IF Numbered(type) THEN 1 ELSE 0
  IN /\ phase = "ready" /\ claimed # {"hidraw"}
     /\ size \in 1..Len(buf)
     /\ \E r \in Received(type, buf) :
          /\ Bytes(reports[r]) <= Len(buf) - header
          /\ reports[r].fields # <<>>
          /\ Process(r, Filled(SubSeq(buf, header + 1, Len(buf)), size - header,
                               Bytes(reports[r])))
     /\ sent' = Nothing
     /\ RestOfDevice /\ UNCHANGED <<claimed, order>>

\* A report the device sends, through hid_input_report, whose buffer ends with
\* it, or hid_safe_input_report.
Input ==
  \E buf \in Payloads : \E size \in 1..Len(buf) : RawEvent("input", buf, size)

\* hid_set_field: the sign decides whether the value is checked.
SetField ==
  /\ phase = "ready"
  /\ \E r \in DOMAIN reports \ Inputs : \E k \in DOMAIN reports[r].fields, v \in Settings :
       LET f == reports[r].fields[k]
       IN /\ f.lmin < 0 => v = Snto32(S32ton(v, f.size), Clipped(f.size))
          /\ \E n \in 1..f.count : reports' = [reports EXCEPT ![r].fields[k].value[n] = v]
  /\ told' = Quiet /\ sent' = Nothing
  /\ RestOfDevice /\ UNCHANGED <<claimed, order, held>>

\* hid_output_field and hid_output_report, without the number in front.
WithValues(f, data) ==
  LET Bits(n) == IF f.lmin < 0 THEN S32ton(f.value[n], f.size)
                 ELSE f.value[n] % 2^Clipped(f.size)
      Put(d, n) == Implement(d, f.offset + (n - 1) * f.size, f.size, Bits(n))
  IN FoldLeft(Put, data, [n \in 1..f.count |-> n])
Output(r) == FoldLeft(LAMBDA d, f : WithValues(f, d), [b \in 1..Bytes(r) |-> 0], r.fields)

\* __hid_request: the report is put together and sent, or the device's answer
\* is processed. The buffer has the number in front even when it is 0.
SetReport ==
  /\ phase = "ready"
  /\ \E r \in DOMAIN reports \ Inputs : sent' = [report |-> r, data |-> Output(reports[r])]
  /\ told' = Quiet
  /\ RestOfDevice /\ UNCHANGED <<reports, claimed, order, held>>

GetReport ==
  \E r \in DOMAIN reports, answer \in Payloads :
    LET buf == <<reports[r].id>> \o answer
    IN RawEvent(reports[r].type, buf, Len(buf))

\* The driver leaves (hid_disconnect, hid_close_report) and another comes.
Reconnect ==
  /\ Reopen
  /\ claimed' = {} /\ order' = <<>> /\ held' = {} /\ told' = Quiet /\ sent' = Nothing

Next ==
  \/ ParserNext /\ UNCHANGED reportVars
  \/ Connect \/ Input \/ SetField \/ SetReport \/ GetReport \/ Reconnect

Spec == Init /\ [][Next]_vars

-----------------------------------------------------------------------------
\* What hidinput believes is down is what the last input reports said: the key
\* of every valid value of an array and no other, whatever reports were lost in
\* an overrun, refused, short or answers to requests. (hidinput is not told of
\* a key that zero names: it counts as down before the first report. Arrays of
\* outputs and features are left out: a driver that sets one tells nobody.)
KeysAgree == phase = "ready" /\ "input" \in claimed =>
               {key \in held : key[1] \in Inputs} = AllKeys

\* One report gives one event for each variable, its value is the remembered
\* one, and no event waits for one of lower rank; among equals the order is
\* the descriptor's.
RankOf(e) ==
  LET Same(x) == /\ x.field = e.field
                 /\ x.usage = e.usage \/ ~reports[told.report].fields[e.field].variable
      found == {k \in DOMAIN order[told.report] : Same(order[told.report][k])}
  IN IF found = {} THEN 0 ELSE order[told.report][CHOOSE k \in found : TRUE].priority
InOrder(d, e) ==
  \/ RankOf(d) > RankOf(e)
  \/ RankOf(d) = RankOf(e) /\ d.field <= e.field
EventOrder ==
  told.report # 0 =>
    LET F == reports[told.report].fields
        heard == {k \in DOMAIN told.events : F[told.events[k].field].variable}
    IN /\ \A i, j \in DOMAIN told.events : i < j => InOrder(told.events[i], told.events[j])
       /\ \A k \in DOMAIN F : F[k].variable =>
            \A n \in 1..F[k].count :
              Cardinality({h \in heard : told.events[h] = Event(k, n, F[k].value[n])}) = 1
       /\ Cardinality(heard) = Cardinality(UNION {{<<k, n>> : n \in 1..F[k].count} :
                                 k \in {x \in DOMAIN F : F[x].variable}})

\* What a report sent has at the place of a value of a field.
Bit(data, b) == (data[b \div Byte + 1] \div 2^(b % Byte)) % 2
BitsOf(f, n) == {f.offset + (n - 1) * f.size + b : b \in 0..Clipped(f.size) - 1}
Number(f, n) == MapThenSumSet(
  LAMBDA b : Bit(sent.data, b) * 2^(b - f.offset - (n - 1) * f.size), BitsOf(f, n))
Carries(f, n) == IF f.lmin < 0
                 THEN Snto32(Number(f, n), Clipped(f.size)) = f.value[n]
                 ELSE Number(f, n) = f.value[n] % 2^Clipped(f.size)

\* Signed fields of a whole word or more, which the build cannot put together.
Wide(f) == f.lmin < 0 /\ Clipped(f.size) = Word /\ WideMask # 2^Word - 1

\* A report sent carries the value of every field, whole and undisturbed by its
\* neighbours, and zeros between them. Unsigned values are cut to the field.
SentCarries ==
  sent.report # 0 =>
    LET r == reports[sent.report]
        used == UNION {UNION {BitsOf(f, n) : n \in 1..f.count} : f \in Range(r.fields)}
    IN /\ \A f \in Range(r.fields) : ~Wide(f) => \A n \in 1..f.count : Carries(f, n)
       /\ \A b \in 0..Byte * Bytes(r) - 1 : b \notin used => Bit(sent.data, b) = 0
=============================================================================
