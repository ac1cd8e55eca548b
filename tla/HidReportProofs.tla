--------------------------- MODULE HidReportProofs ---------------------------
(***************************************************************************)
(* For every descriptor a device may send, what hid_open_report accepts is *)
(* sound: fields lie side by side in their reports, every value has a      *)
(* usage, every usage a collection, and the collections nest; inputs of    *)
(* one logical collection have one multiplier, and the scan has chosen the *)
(* driver's group by the fields that are then built.  For every report the *)
(* events come by rank, one for each variable, and the keys that hidinput  *)
(* holds are those that the arrays name.                                   *)
(*                                                                         *)
(* The layout is sound at every item of the descriptor and not just at its *)
(* end.  For the collections this needs the stack of the open ones: it is  *)
(* the chain from an outermost collection to the innermost, and what comes *)
(* after one of them lies in it.  For the fields it needs that sizes and   *)
(* counts are natural numbers, in the global state and on its stack, and   *)
(* that usages name collections already in the local state.  Later steps   *)
(* change multipliers and values, which the layout does not depend on.     *)
(*                                                                         *)
(* Usages are plain until the end of the descriptor; which multipliers     *)
(* apply to one then depends only on the logical collection around it, for *)
(* the collections around a collection are a chain.                        *)
(*                                                                         *)
(* The events of a report are those of the entries of its list, or of its  *)
(* fields, one after another.  Insertion keeps the list by priority and,   *)
(* among equals, as the descriptor has it, each entry once.  An array's    *)
(* events name what came and what went, each key on one side only: so the  *)
(* last event of a key says what hidinput believes of it, and a key        *)
(* without one is as it was.                                               *)
(*                                                                         *)
(* The scan and the parser read one sequence of states, for what an item   *)
(* does to the parser's state is a function of it.  What the scan has met  *)
(* up to an item is what the parser has built when it is there.            *)
(***************************************************************************)
EXTENDS HidReport, SequenceTheorems, FiniteSetTheorems, WellFoundedInduction,
        NaturalsInduction, TLAPS

\* A sequence, of whatever it holds.
IsSeq(s) == s \in Seq(Range(s))

\* A sequence has a length, and its domain is up to it.
LEMMA SeqShape ==
  ASSUME NEW s, IsSeq(s)
  PROVE  Len(s) \in Nat /\ DOMAIN s = 1..Len(s)
BY LenProperties DEF IsSeq

\* What is defined from 1 up to a length is a sequence of that length.
LEMMA SeqMade ==
  ASSUME NEW n \in Nat, NEW s, s = [k \in 1..n |-> s[k]]
  PROVE  IsSeq(s) /\ Len(s) = n
<1>1. s \in [1..n -> Range(s)]
  BY DEF Range
<1>2. s \in Seq(Range(s))
  BY <1>1, SeqDef
<1>3. Len(s) \in Nat /\ 1..Len(s) = 1..n
  BY <1>2, LenProperties
<1> QED
  BY <1>2, <1>3 DEF IsSeq

\* A sequence is one over any set that holds its values.
LEMMA SeqWider ==
  ASSUME NEW s, IsSeq(s), NEW T, Range(s) \subseteq T
  PROVE  s \in Seq(T)
BY SeqMonotonic DEF IsSeq

\* A sequence over any set is one.
LEMMA SeqNarrow ==
  ASSUME NEW T, NEW s \in Seq(T)
  PROVE  IsSeq(s)
<1>1. Len(s) \in Nat /\ s \in [1..Len(s) -> T]
  BY LenProperties
<1>2. s = [k \in 1..Len(s) |-> s[k]]
  BY <1>1
<1> QED
  BY <1>1, <1>2, SeqMade

\* So is the empty one.
LEMMA EmptyIsSeq == IsSeq(<<>>) /\ Len(<<>>) = 0 /\ DOMAIN <<>> = {}
<1>1. <<>> \in Seq({})
  OBVIOUS
<1>2. IsSeq(<<>>)
  BY <1>1, SeqNarrow
<1>3. Len(<<>>) = 0
  OBVIOUS
<1> QED
  BY <1>2, <1>3, SeqShape

\* Two in a row.
LEMMA Joined ==
  ASSUME NEW s, NEW t, IsSeq(s), IsSeq(t)
  PROVE  /\ IsSeq(s \o t) /\ Len(s \o t) = Len(s) + Len(t)
         /\ \A k \in 1..Len(s) + Len(t) :
              (s \o t)[k] = IF k <= Len(s) THEN s[k] ELSE t[k - Len(s)]
<1> DEFINE T == Range(s) \cup Range(t)
<1>1. s \in Seq(T) /\ t \in Seq(T)
  BY SeqWider
<1> QED
  BY <1>1, ConcatProperties, SeqNarrow

\* One with a value more.
LEMMA Appended ==
  ASSUME NEW s, NEW e, IsSeq(s)
  PROVE  /\ IsSeq(Append(s, e)) /\ Len(Append(s, e)) = Len(s) + 1
         /\ \A k \in 1..Len(s) : Append(s, e)[k] = s[k]
         /\ Append(s, e)[Len(s) + 1] = e
<1> DEFINE T == Range(s) \cup {e}
<1>1. s \in Seq(T) /\ e \in T
  BY SeqWider
<1>2. Append(s, e) \in Seq(T) /\ Len(Append(s, e)) = Len(s) + 1
  BY <1>1
<1>3. /\ \A k \in 1..Len(s) : Append(s, e)[k] = s[k]
      /\ Append(s, e)[Len(s) + 1] = e
  BY <1>1, LenProperties
<1> QED
  BY <1>2, <1>3, SeqNarrow

\* One without its last value.
LEMMA Fronted ==
  ASSUME NEW s, IsSeq(s), s # <<>>
  PROVE  /\ IsSeq(Front(s)) /\ Len(Front(s)) = Len(s) - 1
         /\ \A k \in 1..Len(s) - 1 : Front(s)[k] = s[k]
         /\ Len(s) \in 1..Len(s) /\ Last(s) = s[Len(s)]
<1>1. PICK n \in Nat : Len(s) = n + 1
  <2>1. Len(s) \in Nat /\ Len(s) # 0
    BY EmptySeq DEF IsSeq
  <2>2. \A m \in Nat : m # 0 => m - 1 \in Nat /\ m = (m - 1) + 1
    OBVIOUS
  <2> QED
    BY <2>1, <2>2
<1>2. \A k \in 1..n : s[k] \in Range(s)
  BY <1>1, SeqShape DEF Range
<1>3. /\ SubSeq(s, 1, n) \in Seq(Range(s))
      /\ Len(SubSeq(s, 1, n)) = IF 1 <= n THEN n - 1 + 1 ELSE 0
      /\ \A k \in 1..n - 1 + 1 : SubSeq(s, 1, n)[k] = s[1 + k - 1]
  BY <1>2, SubSeqProperties
<1>4. Len(SubSeq(s, 1, n)) = n /\ \A k \in 1..n : SubSeq(s, 1, n)[k] = s[k]
  BY <1>3
<1>5. Len(s) - 1 = n /\ Len(s) \in 1..Len(s)
  BY <1>1
<1> QED
  BY <1>3, <1>4, <1>5, SeqNarrow DEF Front, Last

\* All values of a sequence replaced.
LEMMA Redefined ==
  ASSUME NEW s, NEW t, IsSeq(s), t = [k \in DOMAIN s |-> t[k]]
  PROVE  IsSeq(t) /\ Len(t) = Len(s) /\ DOMAIN t = DOMAIN s
BY SeqShape, SeqMade

\* One value replaced.
LEMMA Replaced ==
  ASSUME NEW s, IsSeq(s), NEW i \in DOMAIN s, NEW e
  PROVE  /\ IsSeq([s EXCEPT ![i] = e]) /\ Len([s EXCEPT ![i] = e]) = Len(s)
         /\ DOMAIN [s EXCEPT ![i] = e] = DOMAIN s
         /\ \A k \in DOMAIN s : [s EXCEPT ![i] = e][k] = IF k = i THEN e ELSE s[k]
<1> DEFINE t == [s EXCEPT ![i] = e]
<1>1. t = [k \in DOMAIN s |-> t[k]]
  OBVIOUS
<1>2. \A k \in DOMAIN s : t[k] = IF k = i THEN e ELSE s[k]
  OBVIOUS
<1> QED
  BY <1>1, <1>2, Redefined

-----------------------------------------------------------------------------
(* The invariant.                                                          *)

\* A field and a report have the parts the layout is made of.
IsField(f) ==
  /\ {"usages", "offset", "size", "count", "constant"} \subseteq DOMAIN f
  /\ f.offset \in Nat /\ f.size \in Nat /\ f.count \in Nat
  /\ \A u \in Range(f.usages) : {"hid", "coll"} \subseteq DOMAIN u
IsReport(r) ==
  /\ {"type", "id", "size", "fields"} \subseteq DOMAIN r
  /\ r.size \in Nat /\ IsSeq(r.fields)
  /\ \A k \in DOMAIN r.fields : IsField(r.fields[k])

\* What has been built is sound at every item, not just at the end.
ReportsSound ==
  /\ IsSeq(reports)
  /\ \A k \in DOMAIN reports :
       IsReport(reports[k]) /\ FieldsFit(reports[k]) /\ UsagesFit(reports[k])
CollectionsSound ==
  /\ IsSeq(collections)
  /\ \A c \in DOMAIN collections : collections[c].parent \in Nat
  /\ CollectionsNest

\* The collection stack is the chain of open collections, outermost first, and
\* whatever came after one of them lies in it.
OpenChain ==
  /\ IsSeq(open)
  /\ \A k \in DOMAIN open :
       /\ open[k] \in DOMAIN collections /\ collections[open[k]].level = k - 1
       /\ \A d \in open[k] + 1..Len(collections) : collections[d].parent >= open[k]
  /\ \A j, k \in DOMAIN open : j < k => open[j] < open[k]

\* The items, the global and the local state that sizes and usages come from.
ItemsRead == IsSeq(rdesc) /\ at \in Nat \ {0} /\ \A k \in DOMAIN rdesc : rdesc[k].data \in Nat
IsGlobal(g) == {"size", "count"} \subseteq DOMAIN g /\ g.size \in Nat /\ g.count \in Nat
GlobalsSound == IsGlobal(global) /\ IsSeq(stack) /\ \A k \in DOMAIN stack : IsGlobal(stack[k])
LocalSound ==
  /\ {"usages", "min"} \subseteq DOMAIN local
  /\ local.min \in Nat /\ IsSeq(local.usages)
  /\ \A k \in DOMAIN local.usages :
       /\ {"hid", "size", "coll"} \subseteq DOMAIN local.usages[k]
       /\ local.usages[k].coll \in DOMAIN collections \cup {1}

IInv ==
  /\ ItemsRead /\ CollectionsSound /\ ReportsSound
  /\ phase = "parse" => OpenChain /\ GlobalsSound /\ LocalSound

\* At the end of a descriptor the invariant is the property.
LEMMA Sufficient == IInv => LayoutSound
BY DEF IInv, LayoutSound, CollectionsSound, ReportsSound, Range

-----------------------------------------------------------------------------
(* Reports.                                                                *)

\* Padding makes a report longer and leaves its fields where they were.
LEMMA Padded ==
  ASSUME NEW r, IsReport(r), FieldsFit(r), UsagesFit(r), IsGlobal(global),
         Grown(r).size <= MaxBits
  PROVE  /\ IsReport(Grown(r)) /\ FieldsFit(Grown(r)) /\ UsagesFit(Grown(r))
         /\ Grown(r).fields = r.fields
         /\ Grown(r).size = r.size + global.size * global.count
         /\ Grown(r).type = r.type /\ Grown(r).id = r.id
<1>1. global.size * global.count \in Nat
  BY DEF IsGlobal
<1>2. /\ DOMAIN Grown(r) = DOMAIN r /\ Grown(r).fields = r.fields
      /\ Grown(r).size = r.size + global.size * global.count
      /\ Grown(r).type = r.type /\ Grown(r).id = r.id
  BY DEF Grown, IsReport
<1>3. r.size \in Nat /\ Grown(r).size \in Nat /\ r.size <= Grown(r).size
  BY <1>1, <1>2 DEF IsReport
<1>4. IsReport(Grown(r))
  BY <1>2, <1>3 DEF IsReport
<1>5. \A k \in DOMAIN r.fields : Extent(r.fields[k]) \in Nat
  BY DEF IsReport, IsField, Extent
<1>6. FieldsFit(Grown(r))
  BY <1>2, <1>3, <1>5 DEF FieldsFit
<1>7. UsagesFit(Grown(r))
  BY <1>2 DEF UsagesFit
<1> QED
  BY <1>2, <1>4, <1>6, <1>7

\* A field that takes the padding fits behind the others.
LEMMA FieldFits ==
  ASSUME NEW r, NEW old, NEW f,
         IsReport(old), FieldsFit(old), IsReport(r), FieldsFit(r), UsagesFit(r),
         r.fields = old.fields, r.size = Extent(f), old.size = f.offset,
         IsField(f), 1..f.count \subseteq DOMAIN f.usages,
         \A u \in Range(f.usages) : u.coll \in DOMAIN collections \cup {1}
  PROVE  IsReport(WithField(r, f)) /\ FieldsFit(WithField(r, f)) /\ UsagesFit(WithField(r, f))
<1>1. CASE Len(r.fields) = MaxFields
  BY <1>1 DEF WithField
<1>2. CASE Len(r.fields) # MaxFields
  <2> DEFINE w == WithField(r, f)
             n == Len(r.fields)
  <2>1. /\ DOMAIN w = DOMAIN r /\ w.size = r.size /\ w.fields = Append(r.fields, f)
    BY <1>2 DEF WithField, IsReport
  <2>2. IsSeq(w.fields) /\ n \in Nat /\ DOMAIN r.fields = 1..n /\ DOMAIN w.fields = 1..n + 1
    BY <2>1, Appended, SeqShape DEF IsReport
  <2>3. w.fields[n + 1] = f /\ \A k \in 1..n : w.fields[k] = r.fields[k]
    BY <2>1, Appended DEF IsReport
  <2>4. IsReport(w)
    BY <2>1, <2>2, <2>3 DEF IsReport
  <2>5. FieldsFit(w)
    <3>1. w.size <= MaxBits
      BY <2>1 DEF FieldsFit
    <3>2. \A k \in 1..n : /\ Extent(w.fields[k]) <= w.size
                          /\ \A j \in 1..k - 1 : Extent(w.fields[j]) <= w.fields[k].offset
      BY <2>1, <2>2, <2>3 DEF FieldsFit
    <3>3. Extent(w.fields[n + 1]) <= w.size
      BY <2>1, <2>3 DEF IsReport
    <3>4. \A j \in 1..n : Extent(w.fields[j]) <= w.fields[n + 1].offset
      BY <2>2, <2>3 DEF FieldsFit
    <3> QED
      BY <2>2, <3>1, <3>2, <3>3, <3>4 DEF FieldsFit
  <2>6. UsagesFit(w)
    BY <2>2, <2>3 DEF UsagesFit
  <2> QED
    BY <2>4, <2>5, <2>6
<1> QED
  BY <1>1, <1>2

\* The extrema of two numbers.
LEMMA Extrema ==
  ASSUME NEW a \in Nat, NEW b \in Nat
  PROVE  /\ Max({a, b}) \in {a, b} /\ Max({a, b}) >= a /\ Max({a, b}) >= b
         /\ Min({a, b}) \in {a, b} /\ Min({a, b}) <= a /\ Min({a, b}) <= b
<1>1. \E x \in {a, b} : \A y \in {a, b} : x >= y
  BY a >= b \/ b >= a
<1>2. \E x \in {a, b} : \A y \in {a, b} : x =< y
  BY a >= b \/ b >= a
<1> QED
  BY <1>1, <1>2 DEF Max, Min

\* Completing usages keeps their collections.
LEMMA Completed ==
  ASSUME LocalSound
  PROVE  /\ DOMAIN Concatenated = 1..Used /\ Used \in Nat
         /\ \A k \in 1..Used : Concatenated[k].coll \in DOMAIN collections \cup {1}
<1>1. DOMAIN local.usages = 1..Used /\ Used \in Nat
  BY SeqShape DEF LocalSound, Used
<1>2. DOMAIN Concatenated = 1..Used
  BY <1>1 DEF Concatenated
<1>3. ASSUME NEW k \in 1..Used
      PROVE  Concatenated[k].coll = local.usages[k].coll
  <2>1. \/ Concatenated[k] = local.usages[k]
        \/ \E h : Concatenated[k] = [local.usages[k] EXCEPT !.hid = h]
    BY <1>1, <1>3 DEF Concatenated
  <2> QED
    BY <1>1, <2>1 DEF LocalSound
<1> QED
  BY <1>1, <1>2, <1>3 DEF LocalSound

\* A new field starts where it is put, has a usage for every value and takes
\* the space of its values.
LEMMA Made ==
  ASSUME NEW i, NEW offset \in Nat, LocalSound, GlobalsSound, Used # 0
  PROVE  LET f == NewField(i, offset) IN
         /\ IsField(f) /\ f.offset = offset
         /\ Extent(f) = offset + global.size * global.count
         /\ 1..f.count \subseteq DOMAIN f.usages
         /\ \A u \in Range(f.usages) : u.coll \in DOMAIN collections \cup {1}
<1> DEFINE f == NewField(i, offset)
           m == Max({Used, global.count})
<1>1. Used \in Nat /\ global.count \in Nat /\ global.size \in Nat
  BY Completed DEF GlobalsSound, IsGlobal
<1>2. m \in Nat /\ m >= global.count
  BY <1>1, Extrema
<1>3. f.offset = offset /\ f.size = global.size /\ f.count = global.count
  BY DEF NewField
<1>4. {"usages", "offset", "size", "count", "constant"} \subseteq DOMAIN f
  BY DEF NewField
<1>5. /\ DOMAIN f.usages = 1..m
      /\ \A k \in 1..m : /\ {"hid", "coll"} \subseteq DOMAIN f.usages[k]
                         /\ f.usages[k].coll = Concatenated[Min({k, Used})].coll
  BY DEF NewField
<1>6. ASSUME NEW k \in 1..m
      PROVE  f.usages[k].coll \in DOMAIN collections \cup {1}
  <2>1. k \in Nat /\ k >= 1 /\ Used >= 1
    BY <1>1, <1>2
  <2>2. Min({k, Used}) \in 1..Used
    BY <1>1, <2>1, Extrema
  <2> QED
    BY <1>5, <2>2, Completed
<1> HIDE DEF f, m
<1>7. IsField(f)
  BY <1>1, <1>3, <1>4, <1>5 DEF IsField, Range
<1>8. 1..f.count \subseteq DOMAIN f.usages
  BY <1>1, <1>2, <1>3, <1>5
<1>9. \A u \in Range(f.usages) : u.coll \in DOMAIN collections \cup {1}
  BY <1>5, <1>6 DEF Range
<1>10. Extent(f) = offset + global.size * global.count
  BY <1>3 DEF Extent
<1> QED
  BY <1>3, <1>7, <1>8, <1>9, <1>10 DEF f

\* The report an item adds to is one of the reports, or a new and empty one.
LEMMA Registering ==
  ASSUME NEW type, ReportsSound,
         NEW k, k = CHOOSE r \in DOMAIN Registered(type) :
                      Registered(type)[r].type = type /\ Registered(type)[r].id = global.id
  PROVE  /\ IsSeq(Registered(type)) /\ k \in DOMAIN Registered(type)
         /\ Registered(type)[k].type = type
         /\ \A r \in DOMAIN Registered(type) :
              /\ IsReport(Registered(type)[r])
              /\ FieldsFit(Registered(type)[r]) /\ UsagesFit(Registered(type)[r])
<1> DEFINE with == Registered(type)
           n == Len(reports)
<1>1. IsSeq(reports) /\ n \in Nat /\ DOMAIN reports = 1..n
  BY SeqShape DEF ReportsSound
<1>2. CASE ReportOf(type, global.id) # {}
  <2>1. with = reports /\ \E r \in DOMAIN with : with[r].type = type /\ with[r].id = global.id
    BY <1>2 DEF Registered, ReportOf
  <2> QED
    BY <1>1, <2>1 DEF ReportsSound
<1>3. CASE ReportOf(type, global.id) = {}
  <2> DEFINE new == [type |-> type, id |-> global.id, size |-> 0,
                     application |-> LookupCollection(1), fields |-> <<>>]
  <2>1. with = Append(reports, new)
    BY <1>3 DEF Registered
  <2>2. /\ IsSeq(with) /\ DOMAIN with = 1..n + 1 /\ with[n + 1] = new
        /\ \A r \in 1..n : with[r] = reports[r]
    BY <1>1, <2>1, Appended, SeqShape
  <2>3. new.type = type /\ new.id = global.id /\ n + 1 \in DOMAIN with
    BY <1>1, <2>2
  <2>4. k \in DOMAIN with /\ with[k].type = type
    BY <2>2, <2>3
  <2>5. IsReport(new) /\ FieldsFit(new) /\ UsagesFit(new)
    <3>1. new.size = 0 /\ new.fields = <<>> /\ DOMAIN new.fields = {}
      BY EmptyIsSeq
    <3>2. IsReport(new)
      BY <3>1, EmptyIsSeq DEF IsReport
    <3>3. MaxBits \in Nat
      BY ParserAssumption
    <3> HIDE DEF new
    <3> QED
      BY <3>1, <3>2, <3>3 DEF FieldsFit, UsagesFit
  <2> HIDE DEF new
  <2> QED
    BY <1>1, <2>2, <2>4, <2>5 DEF ReportsSound
<1> QED
  BY <1>2, <1>3

-----------------------------------------------------------------------------
(* Changes of values and multipliers leave the layout alone.               *)

SameField(f, g) ==
  /\ {"usages", "offset", "size", "count", "constant"} \subseteq DOMAIN g
  /\ g.offset = f.offset /\ g.size = f.size /\ g.count = f.count /\ g.constant = f.constant
  /\ DOMAIN g.usages = DOMAIN f.usages
  /\ \A u \in DOMAIN f.usages :
       /\ {"hid", "coll"} \subseteq DOMAIN g.usages[u]
       /\ g.usages[u].hid = f.usages[u].hid /\ g.usages[u].coll = f.usages[u].coll
SameReport(r, t) ==
  /\ {"type", "id", "size", "fields"} \subseteq DOMAIN t
  /\ t.size = r.size /\ t.type = r.type
  /\ t.fields = [k \in DOMAIN r.fields |-> t.fields[k]]
  /\ \A k \in DOMAIN r.fields : SameField(r.fields[k], t.fields[k])
SameReports ==
  /\ reports' = [r \in DOMAIN reports |-> reports'[r]]
  /\ \A r \in DOMAIN reports : SameReport(reports[r], reports'[r])

\* A field and a report are like themselves.
LEMMA SameAsItself ==
  /\ \A f : IsField(f) => SameField(f, f)
  /\ \A r : IsReport(r) => SameReport(r, r)
<1>1. \A f : IsField(f) => SameField(f, f)
  BY DEF IsField, SameField, Range
<1>2. ASSUME NEW r, IsReport(r)
      PROVE  r.fields = [k \in DOMAIN r.fields |-> r.fields[k]]
  <2>1. r.fields \in [1..Len(r.fields) -> Range(r.fields)]
    BY <1>2, LenProperties DEF IsReport, IsSeq
  <2> QED
    BY <2>1
<1> QED
  BY <1>1, <1>2 DEF IsReport, SameReport

\* One report with another of the same layout.
LEMMA LayoutOfOne ==
  ASSUME NEW r, NEW t, IsReport(r), FieldsFit(r), UsagesFit(r), SameReport(r, t)
  PROVE  IsReport(t) /\ FieldsFit(t) /\ UsagesFit(t)
<1>1. IsSeq(t.fields) /\ DOMAIN t.fields = DOMAIN r.fields
  BY Redefined DEF IsReport, SameReport
<1>2. \A k \in DOMAIN r.fields :
        Extent(t.fields[k]) = Extent(r.fields[k]) /\ t.fields[k].offset = r.fields[k].offset
  BY DEF SameReport, SameField, Extent
<1>3. IsReport(t)
  <2>1. ASSUME NEW k \in DOMAIN r.fields PROVE IsField(t.fields[k])
    BY DEF SameReport, SameField, IsReport, IsField, Range
  <2> QED
    BY <1>1, <2>1 DEF SameReport, IsReport
<1>4. FieldsFit(t)
  <2>1. DOMAIN r.fields = 1..Len(r.fields) /\ Len(r.fields) \in Nat
    BY SeqShape DEF IsReport
  <2>2. t.size = r.size
    BY DEF SameReport
  <2>3. \A k \in DOMAIN r.fields : \A j \in 1..k - 1 : j \in DOMAIN r.fields
    BY <2>1
  <2> QED
    BY <1>1, <1>2, <2>2, <2>3 DEF FieldsFit
<1>5. UsagesFit(t)
  <2>1. ASSUME NEW k \in DOMAIN r.fields
        PROVE  /\ 1..t.fields[k].count \subseteq DOMAIN t.fields[k].usages
               /\ \A u \in DOMAIN t.fields[k].usages :
                    t.fields[k].usages[u].coll \in DOMAIN collections \cup {1}
    <3>1. SameField(r.fields[k], t.fields[k])
      BY DEF SameReport
    <3>2. /\ 1..r.fields[k].count \subseteq DOMAIN r.fields[k].usages
          /\ \A u \in DOMAIN r.fields[k].usages :
               r.fields[k].usages[u].coll \in DOMAIN collections \cup {1}
      BY DEF UsagesFit, Range
    <3> QED
      BY <3>1, <3>2 DEF SameField
  <2> QED
    BY <1>1, <2>1 DEF UsagesFit, Range
<1> QED
  BY <1>3, <1>4, <1>5

\* All reports with others of the same layout.
LEMMA LayoutKept ==
  ASSUME ReportsSound, UNCHANGED collections, SameReports
  PROVE  ReportsSound'
<1>1. IsSeq(reports') /\ DOMAIN reports' = DOMAIN reports
  BY Redefined DEF ReportsSound, SameReports
<1>2. \A r \in DOMAIN reports :
        IsReport(reports'[r]) /\ FieldsFit(reports'[r]) /\ UsagesFit(reports'[r])
  BY LayoutOfOne DEF ReportsSound, SameReports
<1> QED
  BY <1>1, <1>2 DEF ReportsSound, UsagesFit

\* The multipliers change the layout of no field.
LEMMA ScaledFieldKeeps ==
  ASSUME NEW ms, NEW f, IsField(f)
  PROVE  SameField(f, ScaledField(ms, f))
<1> DEFINE g == ScaledField(ms, f)
<1>1. \A u \in DOMAIN f.usages : {"hid", "coll"} \subseteq DOMAIN f.usages[u]
  BY DEF IsField, Range
<1>2. /\ DOMAIN g = DOMAIN f
      /\ g.offset = f.offset /\ g.size = f.size /\ g.count = f.count /\ g.constant = f.constant
      /\ g.usages = [u \in DOMAIN f.usages |-> ScaledUsage(ms, f.usages[u])]
  BY DEF IsField, ScaledField
<1>3. ASSUME NEW u \in DOMAIN f.usages
      PROVE  /\ {"hid", "coll"} \subseteq DOMAIN ScaledUsage(ms, f.usages[u])
             /\ ScaledUsage(ms, f.usages[u]).hid = f.usages[u].hid
             /\ ScaledUsage(ms, f.usages[u]).coll = f.usages[u].coll
  <2>1. \/ ScaledUsage(ms, f.usages[u]) = f.usages[u]
        \/ \E m : ScaledUsage(ms, f.usages[u]) = [f.usages[u] EXCEPT !.multiplier = m]
    BY DEF ScaledUsage
  <2> QED
    BY <1>1, <2>1
<1> HIDE DEF g
<1> QED
  BY <1>2, <1>3 DEF IsField, SameField, g

\* Reports keep their layout when their fields do.
LEMMA ScaledKeeps ==
  ASSUME ReportsSound
  PROVE  /\ Scaled(reports) = [r \in DOMAIN reports |-> Scaled(reports)[r]]
         /\ \A r \in DOMAIN reports : SameReport(reports[r], Scaled(reports)[r])
<1>1. Scaled(reports) = [r \in DOMAIN reports |-> Scaled(reports)[r]]
  BY DEF Scaled
<1>2. ASSUME NEW r \in DOMAIN reports
      PROVE  SameReport(reports[r], Scaled(reports)[r])
  <2> DEFINE ms == Multipliers(reports)
             new == [reports[r] EXCEPT
                       !.fields = [k \in DOMAIN @ |-> ScaledField(ms, @[k])]]
  <2>1. IsReport(reports[r])
    BY DEF ReportsSound
  <2>2. Scaled(reports)[r] = reports[r] \/ Scaled(reports)[r] = new
    BY DEF Scaled
  <2>3. SameReport(reports[r], new)
    <3>1. /\ DOMAIN new = DOMAIN reports[r] /\ new.size = reports[r].size
          /\ new.type = reports[r].type
          /\ new.fields = [k \in DOMAIN reports[r].fields |->
                             ScaledField(ms, reports[r].fields[k])]
      BY <2>1 DEF IsReport
    <3>2. \A k \in DOMAIN reports[r].fields : SameField(reports[r].fields[k], new.fields[k])
      BY <2>1, <3>1, ScaledFieldKeeps DEF IsReport
    <3>3. new.fields = [k \in DOMAIN reports[r].fields |-> new.fields[k]]
      BY <3>1
    <3> HIDE DEF new
    <3> QED
      BY <2>1, <3>1, <3>2, <3>3 DEF IsReport, SameReport
  <2> QED
    BY <2>1, <2>2, <2>3, SameAsItself
<1> QED
  BY <1>1, <1>2

\* Neither do the values of a report that arrives.
LEMMA ProcessKeeps ==
  ASSUME ReportsSound, NEW r \in DOMAIN reports, NEW data, Process(r, data)
  PROVE  SameReports
<1> DEFINE new == [reports[r] EXCEPT !.fields = [k \in DOMAIN @ |-> Remembered(@[k], data)]]
<1>1. IsReport(reports[r])
  BY DEF ReportsSound
<1>2. reports' = [reports EXCEPT ![r] = new]
  BY DEF Process
<1>3. ASSUME NEW f, IsField(f)
      PROVE  SameField(f, Remembered(f, data))
  <2>1. \/ Remembered(f, data) = f
        \/ \E v : Remembered(f, data) = [f EXCEPT !.value = v]
    BY DEF Remembered
  <2>2. ASSUME NEW v PROVE SameField(f, [f EXCEPT !.value = v])
    BY <1>3 DEF IsField, SameField, Range
  <2> QED
    BY <1>3, <2>1, <2>2, SameAsItself
<1>4. SameReport(reports[r], new)
  <2>1. /\ DOMAIN new = DOMAIN reports[r] /\ new.size = reports[r].size
        /\ new.type = reports[r].type
        /\ new.fields = [k \in DOMAIN reports[r].fields |->
                           Remembered(reports[r].fields[k], data)]
    BY <1>1 DEF IsReport
  <2>2. \A k \in DOMAIN reports[r].fields : SameField(reports[r].fields[k], new.fields[k])
    BY <1>1, <1>3, <2>1 DEF IsReport
  <2>3. new.fields = [k \in DOMAIN reports[r].fields |-> new.fields[k]]
    BY <2>1
  <2> HIDE DEF new
  <2> QED
    BY <1>1, <2>1, <2>2, <2>3 DEF IsReport, SameReport
<1> HIDE DEF new
<1>5. reports' = [k \in DOMAIN reports |-> reports'[k]]
  BY <1>2 DEF ReportsSound, IsSeq
<1>6. \A k \in DOMAIN reports : SameReport(reports[k], reports'[k])
  BY <1>2, <1>4, SameAsItself DEF ReportsSound
<1> QED
  BY <1>5, <1>6 DEF SameReports

\* Nor a value that a driver sets.
LEMMA SettingKeeps ==
  ASSUME ReportsSound, NEW r \in DOMAIN reports, NEW k \in DOMAIN reports[r].fields,
         NEW n, NEW v, reports' = [reports EXCEPT ![r].fields[k].value[n] = v]
  PROVE  SameReports
<1> DEFINE field == [reports[r].fields[k] EXCEPT !.value = [@ EXCEPT ![n] = v]]
           new == [reports[r] EXCEPT !.fields = [@ EXCEPT ![k] = field]]
<1>1. IsReport(reports[r])
  BY DEF ReportsSound
<1>2. reports' = [reports EXCEPT ![r] = new]
  OBVIOUS
<1>3. SameField(reports[r].fields[k], field)
  BY <1>1 DEF IsReport, IsField, SameField, Range
<1> HIDE DEF field
<1>4. SameReport(reports[r], new)
  <2>1. /\ DOMAIN new = DOMAIN reports[r] /\ new.size = reports[r].size
        /\ new.type = reports[r].type
        /\ new.fields = [reports[r].fields EXCEPT ![k] = field]
    BY <1>1 DEF IsReport
  <2>2. \A j \in DOMAIN reports[r].fields : SameField(reports[r].fields[j], new.fields[j])
    BY <1>1, <1>3, <2>1, SameAsItself DEF IsReport
  <2>3. new.fields = [j \in DOMAIN reports[r].fields |-> new.fields[j]]
    BY <2>1
  <2> HIDE DEF new
  <2> QED
    BY <1>1, <2>1, <2>2, <2>3 DEF IsReport, SameReport
<1> HIDE DEF new
<1>5. reports' = [j \in DOMAIN reports |-> reports'[j]]
  BY <1>2 DEF ReportsSound, IsSeq
<1>6. \A j \in DOMAIN reports : SameReport(reports[j], reports'[j])
  BY <1>2, <1>4, SameAsItself DEF ReportsSound
<1> QED
  BY <1>5, <1>6 DEF SameReports

-----------------------------------------------------------------------------
(* The collections.                                                        *)

\* A collection that opens lies in the innermost open one, and comes last.
LEMMA Opened ==
  ASSUME CollectionsSound, OpenChain, NEW type, NEW usage, OpenCollection(type, usage)
  PROVE  CollectionsSound' /\ OpenChain' /\ DOMAIN collections \subseteq DOMAIN collections'
<1> DEFINE n == Len(collections)
           m == Len(open)
           p == IF open = <<>> THEN 0 ELSE Last(open)
           new == [type |-> type, usage |-> usage, level |-> m, parent |-> p]
<1>1. n \in Nat /\ DOMAIN collections = 1..n /\ m \in Nat /\ DOMAIN open = 1..m
  BY SeqShape DEF CollectionsSound, OpenChain
<1>2. /\ IsSeq(collections') /\ Len(collections') = n + 1 /\ DOMAIN collections' = 1..n + 1
      /\ collections'[n + 1] = new /\ \A c \in 1..n : collections'[c] = collections[c]
  BY <1>1, Appended, SeqShape DEF OpenCollection, CollectionsSound
<1>3. /\ IsSeq(open') /\ DOMAIN open' = 1..m + 1
      /\ open'[m + 1] = n + 1 /\ \A k \in 1..m : open'[k] = open[k]
  BY <1>1, Appended, SeqShape DEF OpenCollection, OpenChain
<1>4. new.level = m /\ new.parent = p
  OBVIOUS
<1>5. /\ p \in 0..n
      /\ m = (IF p = 0 THEN 0 ELSE collections[p].level + 1)
      /\ \A d \in p + 1..n : collections[d].parent >= p
  <2>1. CASE open = <<>>
    BY <1>1, <2>1, EmptyIsSeq DEF CollectionsSound
  <2>2. CASE open # <<>>
    <3>1. m \in DOMAIN open /\ p = open[m]
      BY <1>1, <2>2, Fronted DEF OpenChain
    <3>2. p \in 1..n /\ collections[p].level = m - 1
      BY <1>1, <3>1 DEF OpenChain
    <3>3. \A d \in p + 1..n : collections[d].parent >= p
      BY <3>1 DEF OpenChain
    <3> HIDE DEF p
    <3> QED
      BY <1>1, <3>2, <3>3
  <2> QED
    BY <2>1, <2>2
<1>6. \A k \in 1..m : open[k] \in 1..n /\ open[k] <= p
  <2>1. ASSUME NEW k \in 1..m PROVE open[k] \in 1..n /\ open[k] <= p
    <3>1. open # <<>>
      BY <1>1, <2>1, EmptyIsSeq
    <3>2. m \in DOMAIN open /\ p = open[m]
      BY <1>1, <3>1, Fronted DEF OpenChain
    <3>3. open[k] \in 1..n /\ open[m] \in 1..n
      BY <1>1, <3>2 DEF OpenChain
    <3>4. k < m => open[k] < open[m]
      BY <1>1, <3>2 DEF OpenChain
    <3> HIDE DEF p
    <3> QED
      BY <1>1, <3>2, <3>3, <3>4
  <2> QED
    BY <2>1
<1> HIDE DEF n, m, p, new
<1>7. CollectionsSound'
  <2>1. \A c \in 1..n + 1 : collections'[c].parent \in Nat
    <3>1. ASSUME NEW c \in 1..n PROVE collections'[c].parent \in Nat
      <4>1. collections'[c] = collections[c] /\ c \in DOMAIN collections
        BY <1>1, <1>2, <3>1
      <4>2. collections[c].parent \in Nat
        BY <4>1 DEF CollectionsSound
      <4> QED
        BY <4>1, <4>2
    <3>2. collections'[n + 1].parent \in Nat
      <4>1. collections'[n + 1].parent = p
        BY <1>2, <1>4
      <4> QED
        BY <1>1, <1>5, <4>1
    <3>3. \A c \in 1..n + 1 : c \in 1..n \/ c = n + 1
      BY <1>1
    <3> QED
      BY <3>1, <3>2, <3>3
  <2>2. ASSUME NEW c \in 1..n
        PROVE  /\ collections'[c].parent < c
               /\ collections'[c].level = (IF collections'[c].parent = 0 THEN 0
                                           ELSE collections'[collections'[c].parent].level + 1)
               /\ \A d \in collections'[c].parent + 1..c - 1 :
                    collections'[d].parent >= collections'[c].parent
    <3> DEFINE q == collections[c].parent
    <3>1. q \in Nat /\ q < c /\ collections'[c] = collections[c]
      BY <1>1, <1>2 DEF CollectionsSound, CollectionsNest
    <3>2. q # 0 => collections'[q] = collections[q]
      BY <1>1, <1>2, <3>1
    <3>3. \A d \in q + 1..c - 1 : collections'[d] = collections[d]
      BY <1>1, <1>2, <3>1
    <3>4. /\ collections[c].level = (IF q = 0 THEN 0 ELSE collections[q].level + 1)
          /\ \A d \in q + 1..c - 1 : collections[d].parent >= q
      BY <1>1 DEF CollectionsSound, CollectionsNest
    <3> QED
      BY <3>1, <3>2, <3>3, <3>4
  <2>3. /\ p < n + 1
        /\ new.level = (IF p = 0 THEN 0 ELSE collections'[p].level + 1)
        /\ \A d \in p + 1..n : collections'[d].parent >= p
    BY <1>1, <1>2, <1>4, <1>5
  <2>4. ASSUME NEW c \in 1..n + 1
        PROVE  /\ collections'[c].parent < c
               /\ collections'[c].level = (IF collections'[c].parent = 0 THEN 0
                                           ELSE collections'[collections'[c].parent].level + 1)
               /\ \A d \in collections'[c].parent + 1..c - 1 :
                    collections'[d].parent >= collections'[c].parent
    <3>1. CASE c \in 1..n
      BY <2>2, <3>1
    <3>2. CASE c = n + 1
      <4>1. c - 1 = n /\ collections'[c] = new
        BY <1>1, <1>2, <3>2
      <4> QED
        BY <1>4, <2>3, <3>2, <4>1
    <3> QED
      BY <1>1, <3>1, <3>2
  <2>5. CollectionsNest'
    BY <1>2, <2>4 DEF CollectionsNest
  <2> QED
    BY <1>2, <2>1, <2>5 DEF CollectionsSound
<1>8. OpenChain'
  <2>1. ASSUME NEW k \in 1..m
        PROVE  /\ open'[k] \in 1..n /\ collections'[open'[k]].level = k - 1
               /\ \A d \in open'[k] + 1..n : collections'[d].parent >= open'[k]
    <3>1. open'[k] = open[k] /\ open[k] \in 1..n
      BY <1>3, <1>6
    <3>2. /\ collections[open[k]].level = k - 1
          /\ \A d \in open[k] + 1..n : collections[d].parent >= open[k]
      BY <1>1 DEF OpenChain, n
    <3>3. \A d \in open[k] + 1..n : collections'[d] = collections[d]
      BY <1>1, <1>2, <3>1
    <3> QED
      BY <1>2, <3>1, <3>2, <3>3
  <2>2. \A k \in 1..m : p >= open'[k]
    BY <1>1, <1>3, <1>5, <1>6
  <2>3. /\ open'[m + 1] \in 1..n + 1 /\ collections'[n + 1].level = m + 1 - 1
        /\ \A d \in n + 1 + 1..n + 1 : FALSE
    BY <1>1, <1>2, <1>3, <1>4
  <2>4. ASSUME NEW k \in 1..m + 1
        PROVE  /\ open'[k] \in 1..n + 1 /\ collections'[open'[k]].level = k - 1
               /\ \A d \in open'[k] + 1..n + 1 : collections'[d].parent >= open'[k]
    <3>1. CASE k \in 1..m
      BY <1>1, <1>2, <1>4, <2>1, <2>2, <3>1
    <3>2. CASE k = m + 1
      BY <1>1, <1>3, <2>3, <3>2
    <3> QED
      BY <1>1, <3>1, <3>2
  <2>5. ASSUME NEW j \in 1..m + 1, NEW k \in 1..m + 1, j < k
        PROVE  open'[j] < open'[k]
    <3>1. j \in 1..m /\ open'[j] = open[j] /\ open[j] \in 1..n
      BY <1>1, <1>3, <1>6, <2>5
    <3>2. CASE k \in 1..m
      BY <1>1, <1>3, <2>5, <3>1, <3>2 DEF OpenChain
    <3>3. CASE k = m + 1
      BY <1>1, <1>3, <3>1, <3>3
    <3> QED
      BY <1>1, <3>2, <3>3
  <2> QED
    BY <1>2, <1>3, <2>4, <2>5 DEF OpenChain
<1> QED
  BY <1>1, <1>2, <1>7, <1>8

\* One that closes was the innermost.
LEMMA Closed ==
  ASSUME OpenChain, open # <<>>, open' = Front(open), UNCHANGED collections
  PROVE  OpenChain'
<1>1. Len(open) \in Nat /\ DOMAIN open = 1..Len(open)
  BY SeqShape DEF OpenChain
<1>2. /\ IsSeq(open') /\ DOMAIN open' = 1..Len(open) - 1
      /\ \A k \in 1..Len(open) - 1 : open'[k] = open[k]
  BY Fronted, SeqShape DEF OpenChain
<1>3. 1..Len(open) - 1 \subseteq DOMAIN open
  BY <1>1
<1> QED
  BY <1>2, <1>3 DEF OpenChain

\* Without a collection the layout is sound, and so it is without a report.
LEMMA Cleared ==
  ASSUME collections' = <<>>, reports' = <<>>
  PROVE  CollectionsSound' /\ ReportsSound'
BY EmptyIsSeq DEF CollectionsSound, CollectionsNest, ReportsSound

-----------------------------------------------------------------------------
(* The states of the parser.                                               *)

\* A clear local state has no usage.
LEMMA NoUsages == ASSUME local' = Local0 PROVE LocalSound'
BY EmptyIsSeq DEF Local0, LocalSound

\* A new parser has no usage and no open collection.
LEMMA Started ==
  ASSUME NEW p, Fresh(p)
  PROVE  OpenChain' /\ GlobalsSound' /\ LocalSound'
<1>1. OpenChain'
  BY EmptyIsSeq DEF Fresh, OpenChain
<1>2. GlobalsSound'
  BY EmptyIsSeq DEF Fresh, Global0, GlobalsSound, IsGlobal
<1>3. LocalSound'
  BY NoUsages DEF Fresh
<1> QED
  BY <1>1, <1>2, <1>3

\* A global item sets a size or a count to its data, or takes both from the stack.
LEMMA GlobalStep ==
  ASSUME GlobalsSound, Item.data \in Nat, ~BadGlobal(Item), GlobalItem
  PROVE  GlobalsSound'
<1> DEFINE i == Item
<1>1. UData(i) \in Nat
  BY DEF UData
<1>2. IsGlobal(global')
  <2>1. CASE i.tag = "pop" /\ stack # <<>>
    <3>1. global' = stack[Len(stack)] /\ Len(stack) \in DOMAIN stack
      BY <2>1, Fronted, SeqShape DEF GlobalItem, AfterGlobal, GlobalsSound
    <3> QED
      BY <3>1 DEF GlobalsSound
  <2>2. CASE ~(i.tag = "pop" /\ stack # <<>>)
    <3>1. \/ global' = global
          \/ global' = [global EXCEPT !.size = UData(i)]
          \/ global' = [global EXCEPT !.count = UData(i)]
          \/ \E v : \/ global' = [global EXCEPT !.page = v]
                    \/ global' = [global EXCEPT !.lmin = v]
                    \/ global' = [global EXCEPT !.lmax = v]
                    \/ global' = [global EXCEPT !.pmin = v]
                    \/ global' = [global EXCEPT !.pmax = v]
                    \/ global' = [global EXCEPT !.exponent = v]
                    \/ global' = [global EXCEPT !.id = v]
      BY <2>2 DEF GlobalItem, AfterGlobal
    <3> QED
      BY <1>1, <3>1 DEF GlobalsSound, IsGlobal
  <2> QED
    BY <2>1, <2>2
<1>3. IsSeq(stack') /\ \A k \in DOMAIN stack' : IsGlobal(stack'[k])
  <2>1. stack' = stack \/ stack' = Append(stack, global) \/ (stack # <<>> /\ stack' = Front(stack))
    BY DEF GlobalItem, AfterStack, BadGlobal
  <2>2. CASE stack' = Append(stack, global)
    BY <2>2, Appended, SeqShape DEF GlobalsSound
  <2>3. CASE stack # <<>> /\ stack' = Front(stack)
    BY <2>3, Fronted, SeqShape DEF GlobalsSound
  <2> QED
    BY <2>1, <2>2, <2>3 DEF GlobalsSound
<1> QED
  BY <1>2, <1>3 DEF GlobalsSound

\* A usage that is added names an open collection, or the first one.
LEMMA UsageAdded ==
  ASSUME OpenChain, NEW u, NEW size
  PROVE  /\ {"hid", "size", "coll"} \subseteq DOMAIN NewUsage(u, size)
         /\ NewUsage(u, size).coll \in DOMAIN collections \cup {1}
<1>1. open # <<>> => Last(open) \in DOMAIN collections
  BY Fronted, SeqShape DEF OpenChain
<1> QED
  BY <1>1 DEF NewUsage

\* A local item adds a usage, or a range of them, maybe empty.
LEMMA LocalStep ==
  ASSUME LocalSound, OpenChain, Item.data \in Nat, LocalItem, UNCHANGED collections
  PROVE  LocalSound'
<1> DEFINE i == Item
           us == local.usages
           last == RangeEnd(i) - local.min + 1
           n == IF last < 0 THEN 0 ELSE last
<1>1. UData(i) \in Nat /\ MaxUsages \in Nat /\ Used \in Nat /\ local.min \in Nat
  BY SeqShape, ParserAssumption DEF UData, LocalSound, Used
<1>2. last \in Int
  BY <1>1 DEF RangeEnd
<1>3. n \in Nat /\ 1..last = 1..n
  BY <1>2
<1>4. IsSeq(Ranged(i)) /\ Len(Ranged(i)) = n /\ DOMAIN Ranged(i) = 1..n
  <2>1. Ranged(i) = [k \in 1..n |-> NewUsage(local.min + k - 1, i.size)]
    BY <1>3 DEF Ranged
  <2>2. Ranged(i) = [k \in 1..n |-> Ranged(i)[k]]
    BY <2>1
  <2> HIDE DEF n
  <2> QED
    BY <1>3, <2>1, <2>2, SeqMade
<1>5. \A k \in 1..n : /\ {"hid", "size", "coll"} \subseteq DOMAIN Ranged(i)[k]
                      /\ Ranged(i)[k].coll \in DOMAIN collections \cup {1}
  BY <1>3, UsageAdded DEF Ranged
<1> HIDE DEF n, last
<1>6. IsSeq(us) /\ DOMAIN us = 1..Used
  BY SeqShape DEF LocalSound, Used
<1>7. \/ DOMAIN local' = DOMAIN local /\ local'.usages = us /\ local'.min \in Nat
      \/ /\ DOMAIN local' = DOMAIN local /\ local'.min = local.min
         /\ local'.usages = Append(us, NewUsage(UData(i), i.size))
      \/ /\ DOMAIN local' = DOMAIN local /\ local'.min = local.min
         /\ local'.usages = us \o Ranged(i)
  <2>1. \/ local' = local
        \/ local' = [local EXCEPT !.depth = @ + 1, !.branch = @ + 1]
        \/ local' = [local EXCEPT !.depth = @ - 1]
        \/ local' = [local EXCEPT !.usages = Append(@, NewUsage(UData(i), i.size))]
        \/ local' = [local EXCEPT !.min = UData(i)]
        \/ local' = [local EXCEPT !.usages = @ \o Ranged(i)]
    BY DEF LocalItem, AfterLocal
  <2> QED
    BY <1>1, <2>1 DEF LocalSound
<1>8. CASE local'.usages = us
  BY <1>1, <1>7, <1>8 DEF LocalSound
<1>9. CASE /\ DOMAIN local' = DOMAIN local /\ local'.min = local.min
           /\ local'.usages = Append(us, NewUsage(UData(i), i.size))
  <2>1. IsSeq(local'.usages) /\ DOMAIN local'.usages = 1..Used + 1
    BY <1>1, <1>6, <1>9, Appended, SeqShape DEF Used
  <2>2. /\ local'.usages[Used + 1] = NewUsage(UData(i), i.size)
        /\ \A k \in 1..Used : local'.usages[k] = us[k]
    BY <1>6, <1>9, Appended DEF Used
  <2>3. \A k \in 1..Used + 1 : k \in 1..Used \/ k = Used + 1
    BY <1>1
  <2> QED
    BY <1>1, <1>6, <1>9, <2>1, <2>2, <2>3, UsageAdded DEF LocalSound
<1>10. CASE /\ DOMAIN local' = DOMAIN local /\ local'.min = local.min
            /\ local'.usages = us \o Ranged(i)
  <2>1. IsSeq(local'.usages) /\ DOMAIN local'.usages = 1..Used + n
    BY <1>1, <1>3, <1>4, <1>6, <1>10, Joined, SeqShape DEF Used
  <2>2. \A k \in 1..Used + n :
          local'.usages[k] = IF k <= Used THEN us[k] ELSE Ranged(i)[k - Used]
    BY <1>4, <1>6, <1>10, Joined DEF Used
  <2>3. \A k \in 1..Used + n : IF k <= Used THEN k \in 1..Used ELSE k - Used \in 1..n
    BY <1>1, <1>3
  <2> QED
    BY <1>1, <1>5, <1>6, <1>10, <2>1, <2>2, <2>3 DEF LocalSound
<1> QED
  BY <1>7, <1>8, <1>9, <1>10

\* A main item that makes a field, or padding.
LEMMA FieldStep ==
  ASSUME ReportsSound, LocalSound, GlobalsSound, NEW type, AddField(type),
         UNCHANGED collections, phase' = "parse"
  PROVE  ReportsSound'
<1> DEFINE with == Registered(type)
           k == CHOOSE r \in DOMAIN with : with[r].type = type /\ with[r].id = global.id
           grown == Grown(with[k])
           f == NewField(Item, with[k].size)
           new == IF Used = 0 THEN grown ELSE WithField(grown, f)
<1>1. /\ IsSeq(with) /\ k \in DOMAIN with
      /\ \A r \in DOMAIN with : IsReport(with[r]) /\ FieldsFit(with[r]) /\ UsagesFit(with[r])
  BY Registering
<1>2. ~(grown.size > MaxBits) /\ reports' = [with EXCEPT ![k] = new]
  BY DEF AddField, Rejected
<1> HIDE DEF with, k
<1>3. IsGlobal(global) /\ with[k].size \in Nat /\ MaxBits \in Nat
  BY <1>1, ParserAssumption DEF GlobalsSound, IsReport
<1>4. grown.size <= MaxBits
  <2>1. grown.size = with[k].size + global.size * global.count
    BY <1>1 DEF Grown, IsReport
  <2>2. grown.size \in Nat
    BY <1>3, <2>1 DEF IsGlobal
  <2> QED
    BY <1>2, <1>3, <2>2
<1>5. /\ IsReport(grown) /\ FieldsFit(grown) /\ UsagesFit(grown)
      /\ grown.fields = with[k].fields
      /\ grown.size = with[k].size + global.size * global.count
  BY <1>1, <1>3, <1>4, Padded
<1> HIDE DEF grown
<1>6. IsReport(new) /\ FieldsFit(new) /\ UsagesFit(new)
  <2>1. CASE Used = 0
    BY <1>5, <2>1
  <2>2. CASE Used # 0
    <3>1. /\ IsField(f) /\ f.offset = with[k].size
          /\ Extent(f) = with[k].size + global.size * global.count
          /\ 1..f.count \subseteq DOMAIN f.usages
          /\ \A u \in Range(f.usages) : u.coll \in DOMAIN collections \cup {1}
      BY <1>3, <2>2, Made
    <3> HIDE DEF f
    <3> QED
      BY <1>1, <1>5, <2>2, <3>1, FieldFits
  <2> QED
    BY <2>1, <2>2
<1> HIDE DEF new
<1>7. /\ IsSeq(reports') /\ DOMAIN reports' = DOMAIN with
      /\ \A r \in DOMAIN with : reports'[r] = IF r = k THEN new ELSE with[r]
  BY <1>1, <1>2, Replaced
<1>8. \A r \in DOMAIN with :
        IsReport(reports'[r]) /\ FieldsFit(reports'[r]) /\ UsagesFit(reports'[r])
  BY <1>1, <1>6, <1>7
<1> QED
  BY <1>7, <1>8 DEF ReportsSound, UsagesFit

-----------------------------------------------------------------------------
(* Every step keeps the invariant.                                         *)

\* The next item is read from the descriptor.
LEMMA Reading ==
  ASSUME ItemsRead, NEW p, NEW type, Fetched(p, type)
  PROVE  Item.data \in Nat /\ (at' \in {at, at + 1} => ItemsRead')
<1>1. at \in DOMAIN rdesc
  BY SeqShape DEF ItemsRead, Fetched
<1> QED
  BY <1>1 DEF ItemsRead, Fetched, Item

\* A rejected descriptor leaves nothing behind.
LEMMA RejectedStep ==
  ASSUME IInv, Rejected, ItemsRead'
  PROVE  IInv'
BY Cleared DEF Rejected, IInv

\* The scan builds nothing, and the parser starts afresh after it.
LEMMA ScanStep ==
  ASSUME IInv, ScanMain \/ ScanGlobal \/ ScanLocal \/ ScanReserved \/ ScanEnds
  PROVE  IInv'
<1>1. UNCHANGED deviceVars
  BY DEF ScanMain, ScanGlobal, ScanLocal, ScanReserved, ScanEnds
<1>2. CollectionsSound' /\ ReportsSound'
  BY <1>1 DEF deviceVars, IInv, CollectionsSound, CollectionsNest, ReportsSound, UsagesFit
<1>3. CASE ScanMain \/ ScanGlobal \/ ScanLocal \/ ScanReserved
  <2>1. phase' # "parse" /\ at' = at + 1 /\ \E type : Fetched("scan", type)
    BY <1>3 DEF ScanMain, ScanGlobal, ScanLocal, ScanReserved, Fetched, Advance
  <2> QED
    BY <1>2, <2>1, Reading DEF IInv
<1>4. CASE ScanEnds
  <2>1. Fresh("parse") /\ at' = 1 /\ UNCHANGED rdesc
    BY <1>4 DEF ScanEnds, Fresh, Exhausted
  <2>2. ItemsRead'
    BY <2>1 DEF IInv, ItemsRead
  <2> QED
    BY <1>2, <2>1, <2>2, Started DEF IInv
<1> QED
  BY <1>3, <1>4

\* An item that the parser reads.
LEMMA ItemStep ==
  ASSUME IInv, ParseGlobal \/ ParseLocal \/ ParseReserved \/ ParseLong
  PROVE  IInv'
<1>1. phase = "parse" /\ OpenChain /\ GlobalsSound /\ LocalSound /\ ItemsRead
  BY DEF ParseGlobal, ParseLocal, ParseReserved, ParseLong, Fetched, IInv
<1>2. Item.data \in Nat /\ (at' \in {at, at + 1} => ItemsRead')
  BY <1>1, Reading DEF ParseGlobal, ParseLocal, ParseReserved, ParseLong
<1>3. CASE Rejected
  BY <1>2, <1>3, RejectedStep DEF Rejected
<1>4. CASE ~Rejected
  <2>1. Advance /\ UNCHANGED deviceVars
    BY <1>4 DEF ParseGlobal, ParseLocal, ParseReserved, ParseLong
  <2>2. ItemsRead' /\ CollectionsSound' /\ ReportsSound' /\ UNCHANGED collections
    BY <1>2, <2>1
       DEF Advance, deviceVars, IInv, CollectionsSound, CollectionsNest, ReportsSound, UsagesFit
  <2>3. CASE ParseGlobal
    <3>1. ~BadGlobal(Item) /\ GlobalItem
      BY <1>4, <2>3 DEF ParseGlobal
    <3>2. GlobalsSound'
      BY <1>1, <1>2, <3>1, GlobalStep
    <3>3. OpenChain' /\ LocalSound'
      BY <1>1, <2>2, <3>1 DEF GlobalItem, OpenChain, LocalSound
    <3> QED
      BY <2>2, <3>2, <3>3 DEF IInv
  <2>4. CASE ParseLocal
    <3>1. LocalItem
      BY <1>4, <2>4 DEF ParseLocal
    <3>2. LocalSound'
      BY <1>1, <1>2, <2>2, <3>1, LocalStep
    <3>3. OpenChain' /\ GlobalsSound'
      BY <1>1, <2>2, <3>1 DEF LocalItem, OpenChain, GlobalsSound
    <3> QED
      BY <2>2, <3>2, <3>3 DEF IInv
  <2>5. CASE ParseReserved
    <3>1. OpenChain' /\ GlobalsSound' /\ LocalSound'
      BY <1>1, <2>2, <2>5 DEF ParseReserved, parserVars, OpenChain, GlobalsSound, LocalSound
    <3> QED
      BY <2>2, <3>1 DEF IInv
  <2>6. CASE ParseLong
    BY <1>4, <2>6 DEF ParseLong
  <2> QED
    BY <2>3, <2>4, <2>5, <2>6
<1> QED
  BY <1>3, <1>4

\* A main item that the parser reads.
LEMMA MainStep ==
  ASSUME IInv, \/ BeginCollection \/ EndCollection \/ OtherMain
               \/ \E type \in {"input", "output", "feature"} : AddField(type)
  PROVE  IInv'
<1>1. phase = "parse" /\ Fetched("parse", "main")
  BY DEF BeginCollection, EndCollection, OtherMain, AddField, Fetched
<1>2. OpenChain /\ GlobalsSound /\ LocalSound /\ ItemsRead /\ CollectionsSound /\ ReportsSound
  BY <1>1 DEF IInv
<1>3. at' \in {at, at + 1} => ItemsRead'
  BY <1>1, <1>2, Reading
<1>4. CASE Rejected
  BY <1>3, <1>4, RejectedStep DEF Rejected
<1>5. CASE ~Rejected
  <2>1. MainDone
    BY <1>5 DEF BeginCollection, EndCollection, OtherMain, AddField
  <2>2. ItemsRead' /\ LocalSound' /\ GlobalsSound' /\ phase' = "parse"
    BY <1>1, <1>2, <1>3, <2>1, NoUsages DEF MainDone, Advance, GlobalsSound
  <2>3. CASE BeginCollection
    <3>1. UNCHANGED reports /\ \E type, usage : OpenCollection(type, usage)
      BY <2>3 DEF BeginCollection
    <3>2. CollectionsSound' /\ OpenChain' /\ DOMAIN collections \subseteq DOMAIN collections'
      BY <1>2, <3>1, Opened
    <3>3. ReportsSound'
      BY <1>2, <3>1, <3>2 DEF ReportsSound, UsagesFit
    <3> QED
      BY <2>2, <3>2, <3>3 DEF IInv
  <2>4. CASE EndCollection
    <3>1. open # <<>> /\ open' = Front(open) /\ UNCHANGED <<collections, reports>>
      BY <1>5, <2>4 DEF EndCollection, deviceVars
    <3>2. OpenChain'
      BY <1>2, <3>1, Closed
    <3>3. CollectionsSound' /\ ReportsSound'
      BY <1>2, <3>1 DEF CollectionsSound, CollectionsNest, ReportsSound, UsagesFit
    <3> QED
      BY <2>2, <3>2, <3>3 DEF IInv
  <2>5. CASE OtherMain
    <3>1. UNCHANGED <<open, collections, reports>>
      BY <2>5 DEF OtherMain, deviceVars
    <3>2. OpenChain' /\ CollectionsSound' /\ ReportsSound'
      BY <1>2, <3>1 DEF OpenChain, CollectionsSound, CollectionsNest, ReportsSound, UsagesFit
    <3> QED
      BY <2>2, <3>2 DEF IInv
  <2>6. CASE \E type \in {"input", "output", "feature"} : AddField(type)
    <3>1. UNCHANGED <<open, collections>>
      BY <1>5, <2>6 DEF AddField
    <3>2. ReportsSound'
      BY <1>2, <2>2, <2>6, <3>1, FieldStep
    <3>3. OpenChain' /\ CollectionsSound'
      BY <1>2, <3>1 DEF OpenChain, CollectionsSound, CollectionsNest
    <3> QED
      BY <2>2, <3>2, <3>3 DEF IInv
  <2> QED
    BY <2>3, <2>4, <2>5, <2>6
<1> QED
  BY <1>4, <1>5

\* The end of the descriptor.
LEMMA EndStep ==
  ASSUME IInv, ParseEnds
  PROVE  IInv'
<1>1. ItemsRead'
  BY DEF ParseEnds, Rejected, Exhausted, IInv, ItemsRead
<1>2. CASE Rejected
  BY <1>1, <1>2, RejectedStep
<1>3. CASE ~Rejected
  <2>1. reports' = Scaled(reports) /\ phase' = "parsed" /\ UNCHANGED collections
    BY <1>3 DEF ParseEnds
  <2>2. ReportsSound'
    BY <2>1, ScaledKeeps, LayoutKept DEF IInv, SameReports
  <2>3. CollectionsSound'
    BY <2>1 DEF IInv, CollectionsSound, CollectionsNest
  <2> QED
    BY <1>1, <2>1, <2>2, <2>3 DEF IInv
<1> QED
  BY <1>2, <1>3

\* Steps of the parsed device: reports, requests and settings.
LEMMA DeviceSame ==
  ASSUME IInv, Connect \/ Input \/ SetField \/ SetReport \/ GetReport
  PROVE  SameReports
<1>1. CASE Connect \/ SetReport
  <2>1. UNCHANGED reports
    BY <1>1 DEF Connect, SetReport, deviceVars
  <2>2. reports = [r \in DOMAIN reports |-> reports[r]]
    BY DEF IInv, ReportsSound, IsSeq
  <2> QED
    BY <2>1, <2>2, SameAsItself DEF IInv, ReportsSound, SameReports
<1>2. CASE Input \/ GetReport
  <2>1. \E r \in DOMAIN reports : \E data : Process(r, data)
    BY <1>2 DEF Input, GetReport, RawEvent, Received, ReportOf
  <2> QED
    BY <2>1, ProcessKeeps DEF IInv
<1>3. CASE SetField
  <2>1. PICK r \in DOMAIN reports \ Inputs :
          \E k \in DOMAIN reports[r].fields, v \in Settings :
            \E n \in 1..reports[r].fields[k].count :
              reports' = [reports EXCEPT ![r].fields[k].value[n] = v]
    BY <1>3 DEF SetField
  <2>2. PICK k \in DOMAIN reports[r].fields, v \in Settings :
          \E n \in 1..reports[r].fields[k].count :
            reports' = [reports EXCEPT ![r].fields[k].value[n] = v]
    BY <2>1
  <2>3. PICK n \in 1..reports[r].fields[k].count :
          reports' = [reports EXCEPT ![r].fields[k].value[n] = v]
    BY <2>2
  <2> QED
    BY <2>3, SettingKeeps DEF IInv
<1> QED
  BY <1>1, <1>2, <1>3

\* They leave the layout alone.
LEMMA DeviceStep ==
  ASSUME IInv, Connect \/ Input \/ SetField \/ SetReport \/ GetReport
  PROVE  IInv'
<1>1. UNCHANGED <<rdesc, at, collections>> /\ phase' = "ready"
  BY DEF Connect, Input, SetField, SetReport, GetReport, RawEvent, RestOfDevice, deviceVars
<1>2. ItemsRead' /\ CollectionsSound'
  BY <1>1 DEF IInv, ItemsRead, CollectionsSound, CollectionsNest
<1>3. ReportsSound'
  BY <1>1, DeviceSame, LayoutKept DEF IInv
<1> QED
  BY <1>1, <1>2, <1>3 DEF IInv

\* The next driver parses the descriptor again.
LEMMA ReopenStep ==
  ASSUME IInv, Reconnect
  PROVE  IInv'
<1>1. collections' = <<>> /\ reports' = <<>> /\ Fresh("parse") /\ at' = 1 /\ UNCHANGED rdesc
  BY DEF Reconnect, Reopen, Fresh
<1>2. ItemsRead'
  BY <1>1 DEF IInv, ItemsRead
<1> QED
  BY <1>1, <1>2, Cleared, Started DEF IInv

\* The invariant holds in every state: whatever the descriptor, what the parser
\* has built fits and nests at every item.
THEOREM Invariance == Spec => []IInv
<1>1. Init => IInv
  <2> SUFFICES ASSUME Init PROVE IInv
    OBVIOUS
  <2>1. ItemsRead
    <3>1. PICK d \in Devices : rdesc = d.rdesc
      BY DEF Init, ParserInit
    <3> DEFINE S == [type : STRING, tag : STRING, data : Nat, size : Nat]
    <3>2. rdesc \in Seq(S)
      BY <3>1, ParserAssumption
    <3>3. \A k \in DOMAIN rdesc : rdesc[k] \in S
      BY <3>2, LenProperties, ElementOfSeq
    <3>4. IsSeq(rdesc)
      BY <3>2, SeqNarrow
    <3>5. at = 1
      BY DEF Init, ParserInit
    <3> QED
      BY <3>3, <3>4, <3>5 DEF ItemsRead
  <2>2. collections = <<>> /\ reports = <<>> /\ phase = "scan"
    BY DEF Init, ParserInit
  <2> QED
    BY <2>1, <2>2, EmptyIsSeq DEF IInv, CollectionsSound, CollectionsNest, ReportsSound
<1>2. IInv /\ [Next]_vars => IInv'
  <2> SUFFICES ASSUME IInv, [Next]_vars PROVE IInv'
    OBVIOUS
  <2>1. CASE ParserNext
    BY <2>1, ScanStep, ItemStep, MainStep, EndStep DEF ParserNext
  <2>2. CASE Connect \/ Input \/ SetField \/ SetReport \/ GetReport
    BY <2>2, DeviceStep
  <2>3. CASE Reconnect
    BY <2>3, ReopenStep
  <2>4. CASE UNCHANGED vars
    BY <2>4 DEF vars, hidVars, IInv, ItemsRead, CollectionsSound, CollectionsNest,
                ReportsSound, UsagesFit, OpenChain, GlobalsSound, LocalSound
  <2> QED
    BY <2>1, <2>2, <2>3, <2>4 DEF Next
<1> QED
  BY <1>1, <1>2, PTL DEF Spec

\* No field overlaps another or leaves its report, no usage lacks its
\* collection and the collections nest, for every descriptor that
\* hid_open_report accepts.
THEOREM LayoutIsSound == Spec => []LayoutSound
<1>1. IInv => LayoutSound
  BY Sufficient
<1> QED
  BY <1>1, Invariance, PTL

-----------------------------------------------------------------------------
(* Collections and what lies around them.                                  *)

\* A set of numbers that is not empty has a least one.
LEMMA LeastExists ==
  ASSUME NEW S \in SUBSET Nat, S # {}
  PROVE  \E n \in S : \A m \in S : n <= m
<1> DEFINE R == {ss \in Nat \X Nat : ss[1] < ss[2]}
<1>1. IsWellFoundedOn(R, Nat)
  BY NatLessThanWellFounded DEF OpToRel
<1> HIDE DEF R
<1>2. PICK n \in S : \A m \in S : ~(<<m, n>> \in R)
  BY <1>1, WFMin, ZenonT(30)
<1>3. ASSUME NEW m \in S PROVE n <= m
  <2>1. m \in Nat /\ n \in Nat
    OBVIOUS
  <2>2. m < n => <<m, n>> \in R
    BY <2>1 DEF R
  <2> QED
    BY <1>2, <2>1, <2>2
<1> QED
  BY <1>3

\* One that is bounded has a greatest one.
LEMMA GreatestExists ==
  ASSUME NEW n \in Nat, NEW S \in SUBSET (0..n), S # {}
  PROVE  Max(S) \in S /\ \A x \in S : x <= Max(S)
<1> DEFINE T == {t \in 0..n : n - t \in S}
<1>1. T \in SUBSET Nat /\ T # {}
  <2>1. PICK x \in S : TRUE
    OBVIOUS
  <2>2. x \in 0..n /\ n - x \in 0..n /\ n - (n - x) = x
    OBVIOUS
  <2>3. n - x \in T
    BY <2>2
  <2>4. \A t \in T : t \in Nat
    OBVIOUS
  <2> HIDE DEF T
  <2> QED
    BY <2>3, <2>4
<1>2. PICK t \in T : \A m \in T : t <= m
  BY <1>1, LeastExists
<1>3. PICK x \in S : t = n - x
  <2>1. n - t \in S /\ t = n - (n - t)
    BY <1>2
  <2> QED
    BY <2>1
<1>4. \A y \in S : x >= y
  <2> SUFFICES ASSUME NEW y \in S PROVE x >= y
    OBVIOUS
  <2>1. n - y \in T
    OBVIOUS
  <2>2. t <= n - y /\ x \in 0..n /\ y \in 0..n
    BY <1>2, <2>1
  <2> QED
    BY <1>3, <2>2
<1>5. \A y \in S : Max(S) >= y
  BY <1>4 DEF Max
<1>6. Max(S) \in S
  BY <1>4 DEF Max
<1> QED
  BY <1>5, <1>6

\* A function that goes up from one to its parent exists when parents come first.
LEMMA UpExists ==
  ASSUME NEW n \in Nat, NEW p, \A k \in 1..n : p[k] \in 0..k - 1
  PROVE  \E up : up = [k \in 0..n |-> IF k = 0 THEN {} ELSE {k} \cup up[p[k]]]
<1> DEFINE Whole(X) == \A x \in X : p[x] = 0 \/ p[x] \in X
           g == [k \in 0..n |-> IF k = 0 THEN {}
                   ELSE {c \in 1..n : \A X \in SUBSET (1..n) : k \in X /\ Whole(X) => c \in X}]
<1>1. ASSUME NEW k \in 1..n, NEW c \in g[k]
      PROVE  c \in {k} \cup g[p[k]]
  <2>1. p[k] \in 0..n /\ k # 0 /\ k \in 0..n
    OBVIOUS
  <2>2. CASE p[k] = 0
    <3>1. Whole({k})
      BY <2>2
    <3>2. {k} \in SUBSET (1..n)
      OBVIOUS
    <3> QED
      BY <2>1, <3>1, <3>2
  <2>3. CASE p[k] # 0 /\ c # k
    <3>1. c \in 1..n
      BY <2>1
    <3>2. ASSUME NEW X \in SUBSET (1..n), p[k] \in X, Whole(X)
          PROVE  c \in X
      <4>1. X \cup {k} \in SUBSET (1..n) /\ Whole(X \cup {k})
        BY <3>2
      <4>2. c \in X \cup {k}
        BY <2>1, <4>1
      <4> QED
        BY <2>3, <4>2
    <3> QED
      BY <2>1, <2>3, <3>1, <3>2
  <2> QED
    BY <2>2, <2>3
<1>2. ASSUME NEW k \in 1..n, NEW c \in {k} \cup g[p[k]]
      PROVE  c \in g[k]
  <2>1. p[k] \in 0..n /\ k # 0 /\ k \in 0..n
    OBVIOUS
  <2>2. c \in 1..n
    BY <2>1
  <2>3. ASSUME NEW X \in SUBSET (1..n), k \in X, Whole(X)
        PROVE  c \in X
    <3>1. CASE c = k
      BY <2>3, <3>1
    <3>2. CASE c # k
      <4>1. c \in g[p[k]] /\ p[k] # 0
        BY <2>1, <3>2
      <4>2. p[k] \in X
        BY <2>3, <4>1
      <4> QED
        BY <2>1, <2>3, <4>1, <4>2
    <3> QED
      BY <3>1, <3>2
  <2> QED
    BY <2>1, <2>2, <2>3
<1>3. \A k \in 1..n : g[k] = {k} \cup g[p[k]]
  BY <1>1, <1>2
<1>4. g[0] = {}
  OBVIOUS
<1>5. g = [k \in 0..n |-> g[k]]
  OBVIOUS
<1> HIDE DEF g
<1>6. g = [k \in 0..n |-> IF k = 0 THEN {} ELSE {k} \cup g[p[k]]]
  <2>1. \A k \in 0..n : g[k] = IF k = 0 THEN {} ELSE {k} \cup g[p[k]]
    <3>1. \A k \in 0..n : k = 0 \/ k \in 1..n
      OBVIOUS
    <3> QED
      BY <1>3, <1>4, <3>1
  <2> QED
    BY <1>5, <2>1
<1> QED
  BY <1>6

\* What lies around a collection is itself and what lies around its parent.
LEMMA AroundIs ==
  ASSUME CollectionsSound
  PROVE  /\ Len(collections) \in Nat /\ DOMAIN collections = 1..Len(collections)
         /\ \A k \in DOMAIN collections : collections[k].parent \in 0..k - 1
         /\ Around[0] = {}
         /\ \A k \in DOMAIN collections : Around[k] = {k} \cup Around[collections[k].parent]
<1> DEFINE n == Len(collections)
           p == [k \in 1..n |-> collections[k].parent]
           up[k \in 0..n] == IF k = 0 THEN {} ELSE {k} \cup up[collections[k].parent]
<1>1. n \in Nat /\ DOMAIN collections = 1..n
  BY SeqShape DEF CollectionsSound
<1>2. \A k \in DOMAIN collections : collections[k].parent \in 0..k - 1
  BY <1>1 DEF CollectionsSound, CollectionsNest
<1>3. \A k \in 1..n : p[k] \in 0..k - 1
  BY <1>1, <1>2
<1>4. PICK g : g = [k \in 0..n |-> IF k = 0 THEN {} ELSE {k} \cup g[p[k]]]
  <2> HIDE DEF n, p
  <2> QED
    BY <1>1, <1>3, UpExists
<1>5. g = [k \in 0..n |-> IF k = 0 THEN {} ELSE {k} \cup g[collections[k].parent]]
  <2>1. \A k \in 0..n : k = 0 \/ p[k] = collections[k].parent
    BY <1>1
  <2> HIDE DEF n, p
  <2>2. \A k \in 0..n : (IF k = 0 THEN {} ELSE {k} \cup g[p[k]])
                         = IF k = 0 THEN {} ELSE {k} \cup g[collections[k].parent]
    BY <2>1
  <2> QED
    BY <1>4, <2>2
<1>6. up = [k \in 0..n |-> IF k = 0 THEN {} ELSE {k} \cup up[collections[k].parent]]
  BY <1>5
<1>7. Around = up
  BY DEF Around
<1> HIDE DEF up, n
<1> QED
  BY <1>1, <1>2, <1>6, <1>7

\* It comes before the collection.
LEMMA AroundBefore ==
  ASSUME CollectionsSound
  PROVE  \A k \in DOMAIN collections : k \in Around[k] /\ Around[k] \subseteq 1..k
<1> DEFINE n == Len(collections)
           Bad == {k \in 1..n : ~(Around[k] \subseteq 1..k)}
           parent(k) == collections[k].parent
<1>1. /\ n \in Nat /\ DOMAIN collections = 1..n
      /\ \A k \in 1..n : parent(k) \in 0..k - 1
      /\ Around[0] = {}
      /\ \A k \in 1..n : Around[k] = {k} \cup Around[parent(k)]
  BY AroundIs
<1> HIDE DEF n, parent
<1>2. Bad = {}
  <2> SUFFICES ASSUME Bad # {} PROVE FALSE
    OBVIOUS
  <2>1. PICK k \in Bad : \A m \in Bad : k <= m
    <3>1. Bad \in SUBSET Nat
      OBVIOUS
    <3> HIDE DEF Bad
    <3> QED
      BY <3>1, LeastExists
  <2>2. k \in 1..n /\ parent(k) \in 0..k - 1 /\ Around[k] = {k} \cup Around[parent(k)]
    BY <1>1
  <2>3. Around[parent(k)] \subseteq 1..k
    <3>1. CASE parent(k) = 0
      BY <1>1, <3>1
    <3>2. CASE parent(k) # 0
      <4>0. n \in Nat /\ k \in 1..n /\ parent(k) \in 0..k - 1
        BY <1>1, <2>2
      <4>1. parent(k) \in 1..n /\ ~(k <= parent(k))
        BY <3>2, <4>0
      <4>2. parent(k) \notin Bad
        BY <2>1, <4>1
      <4>3. Around[parent(k)] \subseteq 1..parent(k)
        BY <4>1, <4>2
      <4> QED
        BY <2>2, <4>3
    <3> QED
      BY <3>1, <3>2
  <2> QED
    BY <2>2, <2>3
<1> QED
  BY <1>1, <1>2

\* What lies around a collection is a chain: of two that do, what comes first lies
\* around the other, and what lies around either of them lies around it.
LEMMA AroundChain ==
  ASSUME CollectionsSound, NEW k \in DOMAIN collections, NEW l \in Around[k], NEW c
  PROVE  /\ l \in DOMAIN collections
         /\ c \in Around[l] => c \in Around[k]
         /\ c \in Around[k] /\ c <= l => c \in Around[l]
<1> DEFINE n == Len(collections)
           Good(x) == /\ c \in Around[l] => c \in Around[x]
                      /\ c \in Around[x] /\ c <= l => c \in Around[l]
           Bad == {x \in 1..n : l \in Around[x] /\ ~Good(x)}
           parent(x) == collections[x].parent
<1>1. /\ n \in Nat /\ DOMAIN collections = 1..n
      /\ \A x \in 1..n : parent(x) \in 0..x - 1
      /\ Around[0] = {}
      /\ \A x \in 1..n : Around[x] = {x} \cup Around[parent(x)]
  BY AroundIs
<1>2. \A x \in 1..n : Around[x] \subseteq 1..x
  BY <1>1, AroundBefore
<1> HIDE DEF n, parent
<1>3. l \in 1..n
  BY <1>1, <1>2
<1>4. Bad = {}
  <2> SUFFICES ASSUME Bad # {} PROVE FALSE
    OBVIOUS
  <2>1. PICK x \in Bad : \A m \in Bad : x <= m
    <3>1. Bad \in SUBSET Nat
      OBVIOUS
    <3> HIDE DEF Bad
    <3> QED
      BY <3>1, LeastExists
  <2>2. /\ x \in 1..n /\ parent(x) \in 0..x - 1 /\ Around[x] = {x} \cup Around[parent(x)]
        /\ l \in Around[x] /\ ~Good(x) /\ Around[x] \subseteq 1..x
    BY <1>1, <1>2
  <2>3. l # x
    BY <2>2
  <2>4. l \in Around[parent(x)] /\ parent(x) \in 1..n /\ ~(x <= parent(x)) /\ l \in 1..x
    <3>1. l \in Around[parent(x)] /\ l \in 1..x
      BY <2>2, <2>3
    <3>2. parent(x) # 0
      BY <1>1, <3>1
    <3>3. n \in Nat /\ x \in 1..n /\ parent(x) \in 0..x - 1
      BY <1>1, <2>2
    <3> QED
      BY <3>1, <3>2, <3>3
  <2>5. parent(x) \notin Bad
    BY <2>1, <2>4
  <2>6. Good(parent(x))
    BY <2>4, <2>5
  <2>7. c \in Around[x] /\ c <= l => c \in Around[parent(x)]
    BY <2>2, <2>3, <2>4
  <2> QED
    BY <2>2, <2>6, <2>7
<1> QED
  BY <1>1, <1>3, <1>4

\* The innermost logical collection is one, lies around, and is the last of them.
LEMMA LogicalIs ==
  ASSUME CollectionsSound, NEW c
  PROVE  \/ /\ LogicalOf(c) = 0
            /\ \A m \in Enclosing(c) : CollectionAt(m).type # 2
         \/ /\ c \in DOMAIN collections /\ LogicalOf(c) \in Around[c]
            /\ LogicalOf(c) \in DOMAIN collections /\ collections[LogicalOf(c)].type = 2
            /\ \A m \in Around[c] : collections[m].type = 2 => m <= LogicalOf(c)
<1> DEFINE found == {m \in Enclosing(c) : CollectionAt(m).type = 2}
<1>1. CASE found = {}
  BY <1>1 DEF LogicalOf
<1>2. CASE found # {}
  <2>1. c \in DOMAIN collections /\ Enclosing(c) = Around[c]
    BY <1>2 DEF Enclosing, CollectionAt
  <2>2. Around[c] \subseteq 1..c /\ c \in Nat /\ DOMAIN collections = 1..Len(collections)
    BY <2>1, AroundBefore, AroundIs
  <2>3. found \in SUBSET (0..c) /\ LogicalOf(c) = Max(found)
    BY <1>2, <2>1, <2>2 DEF LogicalOf
  <2> HIDE DEF found
  <2>4. LogicalOf(c) \in found /\ \A m \in found : m <= LogicalOf(c)
    BY <1>2, <2>2, <2>3, GreatestExists
  <2>5. \A m \in Around[c] : m \in DOMAIN collections
    BY <2>1, AroundChain
  <2> USE DEF found
  <2> QED
    BY <2>1, <2>4, <2>5 DEF CollectionAt
<1> QED
  BY <1>1, <1>2

\* So a multiplier applies to two usages alike when they share it.
LEMMA AppliesAlike ==
  ASSUME CollectionsSound, NEW x, NEW c, NEW d, LogicalOf(c) = LogicalOf(d),
         Applies(LogicalOf(x), c)
  PROVE  Applies(LogicalOf(x), d)
<1> DEFINE mc == LogicalOf(x)
           l == LogicalOf(c)
<1>1. CASE mc = 0
  BY <1>1 DEF Applies
<1>2. CASE mc # 0
  <2>1. mc \in DOMAIN collections /\ collections[mc].type = 2
    BY <1>2, LogicalIs
  <2>2. mc \in Enclosing(c) /\ CollectionAt(mc).type = 2 /\ CollectionAt(mc).parent # 0
    BY <1>2, <2>1 DEF Applies, CollectionAt
  <2>3. 0 \notin DOMAIN collections
    BY AroundIs
  <2> HIDE DEF mc
  <2>4. /\ c \in DOMAIN collections /\ l \in Around[c] /\ l \in DOMAIN collections
        /\ \A m \in Around[c] : collections[m].type = 2 => m <= l
    BY <2>2, LogicalIs
  <2>5. mc \in Around[c] /\ mc <= l
    BY <2>1, <2>2, <2>4 DEF Enclosing
  <2>6. mc \in Around[l]
    BY <2>4, <2>5, AroundChain
  <2>7. d \in DOMAIN collections /\ l \in Around[d]
    BY <2>3, <2>4, LogicalIs
  <2>8. mc \in Around[d]
    BY <2>6, <2>7, AroundChain
  <2> QED
    BY <2>2, <2>7, <2>8 DEF Applies, Enclosing, mc
<1> QED
  BY <1>1, <1>2

-----------------------------------------------------------------------------
(* Multipliers.                                                            *)

\* Before the end of a descriptor no usage is scaled.
Plain(f) ==
  /\ IsSeq(f.usages)
  /\ \A n \in DOMAIN f.usages :
       "multiplier" \in DOMAIN f.usages[n] /\ f.usages[n].multiplier = 1
Unscaled == \A r \in DOMAIN reports : \A k \in DOMAIN reports[r].fields :
              Plain(reports[r].fields[k])

\* Two fields of inputs are scaled alike where they share a logical collection.
Alike(f, g) ==
  \A m \in DOMAIN f.usages, n \in DOMAIN g.usages :
    LogicalOf(f.usages[m].coll) = LogicalOf(g.usages[n].coll) =>
      f.usages[m].multiplier = g.usages[n].multiplier
AllAlike ==
  \A r, s \in Inputs :
    \A k \in DOMAIN reports[r].fields, l \in DOMAIN reports[s].fields :
      Alike(reports[r].fields[k], reports[s].fields[l])

MInv == IF Open THEN AllAlike ELSE Unscaled

\* A usage of the inputs has its place in a field of one of them.
LEMMA InputUsageAt ==
  ASSUME NEW u \in InputUsages
  PROVE  \E r \in Inputs : \E k \in DOMAIN reports[r].fields :
           \E n \in DOMAIN reports[r].fields[k].usages : u = reports[r].fields[k].usages[n]
BY DEF InputUsages, Inputs, Range

\* The invariant says of indices what the property says of usages.
LEMMA SharedIs ==
  ASSUME MInv, Open, NEW u \in InputUsages, NEW v \in InputUsages,
         LogicalOf(u.coll) = LogicalOf(v.coll)
  PROVE  u.multiplier = v.multiplier
<1>1. PICK r \in Inputs : \E k \in DOMAIN reports[r].fields :
        \E n \in DOMAIN reports[r].fields[k].usages : u = reports[r].fields[k].usages[n]
  BY InputUsageAt
<1>2. PICK s \in Inputs : \E k \in DOMAIN reports[s].fields :
        \E n \in DOMAIN reports[s].fields[k].usages : v = reports[s].fields[k].usages[n]
  BY InputUsageAt
<1>3. PICK k \in DOMAIN reports[r].fields :
        \E n \in DOMAIN reports[r].fields[k].usages : u = reports[r].fields[k].usages[n]
  BY <1>1
<1>4. PICK l \in DOMAIN reports[s].fields :
        \E n \in DOMAIN reports[s].fields[l].usages : v = reports[s].fields[l].usages[n]
  BY <1>2
<1>5. Alike(reports[r].fields[k], reports[s].fields[l])
  BY DEF MInv, AllAlike
<1> QED
  BY <1>3, <1>4, <1>5 DEF Alike

\* What a scaled usage carries depends on its logical collection alone.
LEMMA ScaledAlike ==
  ASSUME CollectionsSound, NEW ms, NEW u, NEW v,
         "multiplier" \in DOMAIN u, "multiplier" \in DOMAIN v,
         u.multiplier = 1, v.multiplier = 1, LogicalOf(u.coll) = LogicalOf(v.coll)
  PROVE  ScaledUsage(ms, u).multiplier = ScaledUsage(ms, v).multiplier
<1> DEFINE Applied(c) == {k \in DOMAIN ms : Applies(LogicalOf(ms[k].usages[1].coll), c)}
           Factor(c) == IF Applied(c) = {} THEN 1 ELSE S8(Calculated(ms[Max(Applied(c))]))
<1>1. Applied(u.coll) = Applied(v.coll)
  BY AppliesAlike
<1>2. ASSUME NEW w, "multiplier" \in DOMAIN w, w.multiplier = 1
      PROVE  ScaledUsage(ms, w).multiplier = Factor(w.coll)
  BY <1>2 DEF ScaledUsage
<1>3. Factor(u.coll) = Factor(v.coll)
  BY <1>1
<1> HIDE DEF Factor
<1> QED
  BY <1>2, <1>3

\* Collections that stay enclose what they did.
LEMMA LogicalStays ==
  ASSUME UNCHANGED collections
  PROVE  \A c : LogicalOf(c)' = LogicalOf(c)
<1>1. Around' = Around
  BY DEF Around
<1>2. \A c : CollectionAt(c)' = CollectionAt(c)
  BY DEF CollectionAt
<1>3. \A c : Enclosing(c)' = Enclosing(c)
  BY <1>1 DEF Enclosing
<1> SUFFICES ASSUME NEW c PROVE LogicalOf(c)' = LogicalOf(c)
  OBVIOUS
<1>4. {x \in Enclosing(c)' : CollectionAt(x)'.type = 2}
        = {x \in Enclosing(c) : CollectionAt(x).type = 2}
  BY <1>2, <1>3
<1> QED
  BY <1>4 DEF LogicalOf

\* The end of the descriptor scales all usages.
LEMMA ScaledAtEnd ==
  ASSUME IInv, Unscaled, reports' = Scaled(reports), UNCHANGED collections
  PROVE  AllAlike'
<1> DEFINE ms == Multipliers(reports)
<1>1. CollectionsSound /\ ReportsSound
  BY DEF IInv
<1>2. ASSUME NEW r \in Inputs'
      PROVE  /\ r \in DOMAIN reports /\ DOMAIN reports'[r].fields = DOMAIN reports[r].fields
             /\ \A k \in DOMAIN reports[r].fields :
                  reports'[r].fields[k] = ScaledField(ms, reports[r].fields[k])
  <2>1. r \in DOMAIN reports /\ reports'[r].type = "input"
    BY DEF Inputs, Scaled
  <2>2. IsReport(reports[r])
    BY <1>1, <2>1 DEF ReportsSound
  <2>3. reports'[r] = IF reports[r].type # "input" THEN reports[r]
                      ELSE [reports[r] EXCEPT
                              !.fields = [k \in DOMAIN @ |-> ScaledField(ms, @[k])]]
    BY <2>1 DEF Scaled
  <2>4. reports[r].type = "input"
    BY <2>1, <2>3
  <2>5. reports'[r].fields = [k \in DOMAIN reports[r].fields |->
                                ScaledField(ms, reports[r].fields[k])]
    BY <2>2, <2>3, <2>4 DEF IsReport
  <2> HIDE DEF ms
  <2> QED
    BY <2>1, <2>5
<1>3. ASSUME NEW f, IsField(f), Plain(f)
      PROVE  /\ DOMAIN ScaledField(ms, f).usages = DOMAIN f.usages
             /\ \A n \in DOMAIN f.usages :
                  /\ ScaledField(ms, f).usages[n] = ScaledUsage(ms, f.usages[n])
                  /\ ScaledField(ms, f).usages[n].coll = f.usages[n].coll
                  /\ "multiplier" \in DOMAIN f.usages[n] /\ f.usages[n].multiplier = 1
  <2>1. SameField(f, ScaledField(ms, f))
    BY <1>3, ScaledFieldKeeps
  <2> HIDE DEF ms
  <2>2. ScaledField(ms, f).usages = [n \in DOMAIN f.usages |-> ScaledUsage(ms, f.usages[n])]
    BY <1>3 DEF ScaledField, IsField
  <2> QED
    BY <1>3, <2>1, <2>2 DEF SameField, Plain
<1> HIDE DEF ms
<1>4. ASSUME NEW f, NEW g, IsField(f), IsField(g), Plain(f), Plain(g)
      PROVE  Alike(ScaledField(ms, f), ScaledField(ms, g))
  <2> SUFFICES ASSUME NEW m \in DOMAIN f.usages, NEW n \in DOMAIN g.usages,
                      LogicalOf(f.usages[m].coll) = LogicalOf(g.usages[n].coll)
               PROVE  ScaledField(ms, f).usages[m].multiplier
                        = ScaledField(ms, g).usages[n].multiplier
    BY <1>3, <1>4 DEF Alike
  <2> QED
    BY <1>1, <1>3, <1>4, ScaledAlike
<1>5. ASSUME NEW r \in Inputs', NEW s \in Inputs',
             NEW k \in DOMAIN reports'[r].fields, NEW l \in DOMAIN reports'[s].fields
      PROVE  Alike(reports'[r].fields[k], reports'[s].fields[l])
  <2>1. /\ reports'[r].fields[k] = ScaledField(ms, reports[r].fields[k])
        /\ reports'[s].fields[l] = ScaledField(ms, reports[s].fields[l])
    BY <1>2
  <2>2. /\ IsField(reports[r].fields[k]) /\ Plain(reports[r].fields[k])
        /\ IsField(reports[s].fields[l]) /\ Plain(reports[s].fields[l])
    BY <1>1, <1>2 DEF ReportsSound, IsReport, Unscaled
  <2> QED
    BY <1>4, <2>1, <2>2
<1> QED
  BY <1>5, LogicalStays DEF AllAlike, Alike

\* Padding and a new field leave the usages of the other fields alone.
LEMMA PlainField ==
  ASSUME ReportsSound, GlobalsSound, LocalSound, Unscaled, NEW type, AddField(type), ~Rejected
  PROVE  Unscaled'
<1> DEFINE with == Registered(type)
           k == CHOOSE r \in DOMAIN with : with[r].type = type /\ with[r].id = global.id
           grown == Grown(with[k])
           f == NewField(Item, with[k].size)
           new == IF Used = 0 THEN grown ELSE WithField(grown, f)
<1>1. /\ IsSeq(with) /\ k \in DOMAIN with
      /\ \A r \in DOMAIN with : IsReport(with[r]) /\ FieldsFit(with[r]) /\ UsagesFit(with[r])
  BY Registering
<1>2. reports' = [with EXCEPT ![k] = new]
  BY DEF AddField
<1>3. ASSUME NEW r \in DOMAIN with, NEW j \in DOMAIN with[r].fields
      PROVE  Plain(with[r].fields[j])
  <2>1. CASE with = reports
    BY <1>3, <2>1 DEF Unscaled
  <2>2. CASE with # reports
    <3>1. PICK rep : with = Append(reports, rep) /\ rep.fields = <<>>
      BY <2>2 DEF Registered
    <3>2. IsSeq(reports)
      BY DEF ReportsSound
    <3>3. /\ Len(reports) \in Nat /\ DOMAIN reports = 1..Len(reports)
          /\ DOMAIN with = 1..Len(reports) + 1 /\ with[Len(reports) + 1] = rep
          /\ \A i \in 1..Len(reports) : with[i] = reports[i]
      BY <1>1, <3>1, <3>2, Appended, SeqShape
    <3> HIDE DEF with
    <3>4. CASE r = Len(reports) + 1
      BY <3>1, <3>3, <3>4
    <3>5. CASE r # Len(reports) + 1
      <4>1. r \in DOMAIN reports /\ with[r] = reports[r]
        BY <3>3, <3>5
      <4> QED
        BY <1>3, <4>1 DEF Unscaled
    <3> QED
      BY <3>4, <3>5
  <2> QED
    BY <2>1, <2>2
<1> HIDE DEF with, k
<1>4. Plain(f)
  <2> DEFINE m == Max({Used, global.count})
  <2>1. m \in Nat
    BY Completed, Extrema DEF GlobalsSound, IsGlobal
  <2>2. f.usages = [n \in 1..m |-> f.usages[n]]
    BY DEF NewField
  <2>3. \A n \in DOMAIN f.usages :
          "multiplier" \in DOMAIN f.usages[n] /\ f.usages[n].multiplier = 1
    BY DEF NewField
  <2> HIDE DEF m, f
  <2> QED
    BY <2>1, <2>2, <2>3, SeqMade DEF Plain
<1>5. IsReport(with[k]) /\ grown.fields = with[k].fields
  BY <1>1 DEF Grown, IsReport
<1> HIDE DEF f
<1>6. \A j \in DOMAIN new.fields : Plain(new.fields[j])
  <2>1. CASE new.fields = with[k].fields
    BY <1>1, <1>3, <2>1
  <2>2. CASE new.fields # with[k].fields
    <3>0. "fields" \in DOMAIN grown
      BY <1>5 DEF Grown, IsReport
    <3>1. new.fields = Append(with[k].fields, f)
      BY <1>5, <2>2, <3>0 DEF WithField
    <3>2. IsSeq(with[k].fields)
      BY <1>5 DEF IsReport
    <3> HIDE DEF new
    <3>3. \A j \in DOMAIN new.fields : j \in DOMAIN with[k].fields
                                         \/ j = Len(with[k].fields) + 1
      BY <3>1, <3>2, Appended, SeqShape
    <3>4. \A j \in DOMAIN with[k].fields : new.fields[j] = with[k].fields[j]
      BY <3>1, <3>2, Appended, SeqShape
    <3>5. new.fields[Len(with[k].fields) + 1] = f
      BY <3>1, <3>2, Appended
    <3> QED
      BY <1>1, <1>3, <1>4, <3>3, <3>4, <3>5
  <2> QED
    BY <2>1, <2>2
<1> HIDE DEF new
<1>7. /\ DOMAIN reports' = DOMAIN with
      /\ \A r \in DOMAIN with : reports'[r] = IF r = k THEN new ELSE with[r]
  BY <1>1, <1>2, Replaced
<1> QED
  BY <1>1, <1>3, <1>6, <1>7 DEF Unscaled

\* Reports and requests change values, and no usage.
LEMMA ValuesOnly ==
  ASSUME AllAlike, UNCHANGED collections, DOMAIN reports' = DOMAIN reports,
         \A r \in DOMAIN reports :
           /\ reports'[r].type = reports[r].type
           /\ DOMAIN reports'[r].fields = DOMAIN reports[r].fields
           /\ \A k \in DOMAIN reports[r].fields :
                reports'[r].fields[k].usages = reports[r].fields[k].usages
  PROVE  AllAlike'
<1>1. Inputs' = Inputs /\ \A r \in Inputs : r \in DOMAIN reports
  BY DEF Inputs
<1>2. ASSUME NEW r \in Inputs, NEW s \in Inputs,
             NEW k \in DOMAIN reports'[r].fields, NEW l \in DOMAIN reports'[s].fields
      PROVE  Alike(reports'[r].fields[k], reports'[s].fields[l])
  <2>1. k \in DOMAIN reports[r].fields /\ l \in DOMAIN reports[s].fields
    BY <1>1
  <2>2. Alike(reports[r].fields[k], reports[s].fields[l])
    BY <2>1 DEF AllAlike
  <2>3. /\ reports'[r].fields[k].usages = reports[r].fields[k].usages
        /\ reports'[s].fields[l].usages = reports[s].fields[l].usages
    BY <1>1, <2>1
  <2> QED
    BY <2>2, <2>3 DEF Alike
<1> QED
  BY <1>1, <1>2, LogicalStays DEF AllAlike, Alike

\* A report that is processed.
LEMMA ProcessValues ==
  ASSUME ReportsSound, AllAlike, NEW r \in DOMAIN reports, NEW data, Process(r, data),
         UNCHANGED collections
  PROVE  AllAlike'
<1> DEFINE new == [reports[r] EXCEPT !.fields = [k \in DOMAIN @ |-> Remembered(@[k], data)]]
<1>1. IsReport(reports[r])
  BY DEF ReportsSound
<1>2. reports' = [reports EXCEPT ![r] = new]
  BY DEF Process
<1>3. ASSUME NEW f, IsField(f)
      PROVE  Remembered(f, data).usages = f.usages
  <2>1. \/ Remembered(f, data) = f
        \/ \E v : Remembered(f, data) = [f EXCEPT !.value = v]
    BY DEF Remembered
  <2> QED
    BY <1>3, <2>1 DEF IsField
<1>4. /\ new.type = reports[r].type /\ DOMAIN new.fields = DOMAIN reports[r].fields
      /\ \A k \in DOMAIN reports[r].fields : new.fields[k].usages = reports[r].fields[k].usages
  <2>1. /\ new.type = reports[r].type
        /\ new.fields = [k \in DOMAIN reports[r].fields |->
                           Remembered(reports[r].fields[k], data)]
    BY <1>1 DEF IsReport
  <2> QED
    BY <1>1, <1>3, <2>1 DEF IsReport
<1> HIDE DEF new
<1>5. /\ DOMAIN reports' = DOMAIN reports
      /\ \A i \in DOMAIN reports : reports'[i] = IF i = r THEN new ELSE reports[i]
  BY <1>2, Replaced DEF ReportsSound
<1> QED
  BY <1>4, <1>5, ValuesOnly

\* A value that a driver sets.
LEMMA SettingValues ==
  ASSUME ReportsSound, AllAlike, NEW r \in DOMAIN reports,
         NEW k \in DOMAIN reports[r].fields, NEW n, NEW v,
         reports' = [reports EXCEPT ![r].fields[k].value[n] = v], UNCHANGED collections
  PROVE  AllAlike'
<1> DEFINE field == [reports[r].fields[k] EXCEPT !.value = [@ EXCEPT ![n] = v]]
           new == [reports[r] EXCEPT !.fields = [@ EXCEPT ![k] = field]]
<1>1. IsReport(reports[r]) /\ IsField(reports[r].fields[k])
  BY DEF ReportsSound, IsReport
<1>2. reports' = [reports EXCEPT ![r] = new]
  OBVIOUS
<1>3. field.usages = reports[r].fields[k].usages
  BY <1>1 DEF IsField
<1> HIDE DEF field
<1>4. /\ new.type = reports[r].type /\ DOMAIN new.fields = DOMAIN reports[r].fields
      /\ \A j \in DOMAIN reports[r].fields : new.fields[j].usages = reports[r].fields[j].usages
  BY <1>1, <1>3 DEF IsReport
<1> HIDE DEF new
<1>5. /\ DOMAIN reports' = DOMAIN reports
      /\ \A i \in DOMAIN reports : reports'[i] = IF i = r THEN new ELSE reports[i]
  BY <1>2, Replaced DEF ReportsSound
<1> QED
  BY <1>4, <1>5, ValuesOnly

\* Every step of the parser keeps the invariant.
LEMMA ParserScales ==
  ASSUME IInv, MInv, ParserNext
  PROVE  MInv'
<1>1. CASE ScanMain \/ ScanGlobal \/ ScanLocal \/ ScanReserved \/ ScanEnds
  <2>1. UNCHANGED reports /\ phase \in {"scan"} /\ phase' \in {"scan", "parse"}
    BY <1>1 DEF ScanMain, ScanGlobal, ScanLocal, ScanReserved, ScanEnds, deviceVars, Fetched,
                Exhausted, Advance, Fresh
  <2> QED
    BY <2>1 DEF MInv, Open, Unscaled
<1>2. CASE Rejected
  BY <1>2, EmptyIsSeq DEF Rejected, MInv, Open, Unscaled
<1>3. CASE ~Rejected /\ (ParseGlobal \/ ParseLocal \/ ParseReserved \/ ParseLong)
  <2>1. UNCHANGED reports /\ phase = "parse" /\ phase' = "parse"
    BY <1>3 DEF ParseGlobal, ParseLocal, ParseReserved, ParseLong, deviceVars, Fetched, Advance
  <2> QED
    BY <2>1 DEF MInv, Open, Unscaled
<1>4. CASE ~Rejected /\ (BeginCollection \/ EndCollection \/ OtherMain)
  <2>1. UNCHANGED reports /\ phase = "parse" /\ phase' = "parse"
    BY <1>4 DEF BeginCollection, EndCollection, OtherMain, deviceVars, Fetched, MainDone, Advance
  <2> QED
    BY <2>1 DEF MInv, Open, Unscaled
<1>5. CASE ~Rejected /\ \E type \in {"input", "output", "feature"} : AddField(type)
  <2>1. phase = "parse" /\ phase' = "parse"
    BY <1>5 DEF AddField, Fetched, MainDone, Advance
  <2>2. ReportsSound /\ GlobalsSound /\ LocalSound /\ Unscaled
    BY <2>1 DEF IInv, MInv, Open
  <2> QED
    BY <1>5, <2>1, <2>2, PlainField DEF MInv, Open
<1>6. CASE ~Rejected /\ ParseEnds
  <2>1. /\ reports' = Scaled(reports) /\ UNCHANGED collections
        /\ phase = "parse" /\ phase' = "parsed"
    BY <1>6 DEF ParseEnds, Exhausted
  <2>2. Unscaled
    BY <2>1 DEF MInv, Open
  <2> QED
    BY <2>1, <2>2, ScaledAtEnd DEF MInv, Open
<1> QED
  BY <1>1, <1>2, <1>3, <1>4, <1>5, <1>6 DEF ParserNext

\* So does every step of the parsed device.
LEMMA DeviceScales ==
  ASSUME IInv, MInv, Connect \/ Input \/ SetField \/ SetReport \/ GetReport
  PROVE  MInv'
<1>1. UNCHANGED collections /\ Open /\ Open'
  BY DEF Connect, Input, SetField, SetReport, GetReport, RawEvent, RestOfDevice, deviceVars, Open
<1>2. ReportsSound /\ AllAlike
  BY <1>1 DEF IInv, MInv
<1>3. CASE Connect \/ SetReport
  <2>1. UNCHANGED reports
    BY <1>3 DEF Connect, SetReport, deviceVars
  <2> QED
    BY <1>1, <1>2, <2>1, ValuesOnly DEF MInv
<1>4. CASE Input \/ GetReport
  <2>1. \E r \in DOMAIN reports : \E data : Process(r, data)
    BY <1>4 DEF Input, GetReport, RawEvent, Received, ReportOf
  <2> QED
    BY <1>1, <1>2, <2>1, ProcessValues DEF MInv
<1>5. CASE SetField
  <2>1. PICK r \in DOMAIN reports \ Inputs :
          \E k \in DOMAIN reports[r].fields, v \in Settings :
            \E n \in 1..reports[r].fields[k].count :
              reports' = [reports EXCEPT ![r].fields[k].value[n] = v]
    BY <1>5 DEF SetField
  <2>2. PICK k \in DOMAIN reports[r].fields, v \in Settings :
          \E n \in 1..reports[r].fields[k].count :
            reports' = [reports EXCEPT ![r].fields[k].value[n] = v]
    BY <2>1
  <2>3. PICK n \in 1..reports[r].fields[k].count :
          reports' = [reports EXCEPT ![r].fields[k].value[n] = v]
    BY <2>2
  <2> QED
    BY <1>1, <1>2, <2>3, SettingValues DEF MInv
<1> QED
  BY <1>3, <1>4, <1>5

\* Usages are plain until the end of the descriptor, and from then on scaled by what
\* their logical collection has.
THEOREM ScalingInvariance == Spec => []MInv
<1>1. Init => MInv
  BY EmptyIsSeq DEF Init, ParserInit, MInv, Open, Unscaled
<1>2. IInv /\ MInv /\ [Next]_vars => MInv'
  <2> SUFFICES ASSUME IInv, MInv, [Next]_vars PROVE MInv'
    OBVIOUS
  <2>1. CASE ParserNext
    BY <2>1, ParserScales
  <2>2. CASE Connect \/ Input \/ SetField \/ SetReport \/ GetReport
    BY <2>2, DeviceScales
  <2>3. CASE Reconnect
    BY <2>3, EmptyIsSeq DEF Reconnect, Reopen, Fresh, MInv, Open, Unscaled
  <2>4. CASE UNCHANGED vars
    <3>1. UNCHANGED <<phase, reports, collections>>
      BY <2>4 DEF vars, hidVars
    <3>2. CASE Open
      BY <3>1, <3>2, ValuesOnly DEF MInv, Open
    <3>3. CASE ~Open
      BY <3>1, <3>3 DEF MInv, Open, Unscaled
    <3> QED
      BY <3>2, <3>3
  <2> QED
    BY <2>1, <2>2, <2>3, <2>4 DEF Next
<1> QED
  BY <1>1, <1>2, Invariance, PTL DEF Spec

-----------------------------------------------------------------------------
(* Folds over sequences.                                                   *)

\* The last of the numbers up to one is that one.
LEMMA LastIndex ==
  ASSUME NEW m \in Nat, NEW S \in SUBSET (1..m), m \in S
  PROVE  Max(S) = m
<1>1. S \in SUBSET (0..m) /\ S # {}
  OBVIOUS
<1>2. Max(S) \in S /\ m <= Max(S)
  BY <1>1, GreatestExists
<1>3. \A x \in S : x \in 1..m
  OBVIOUS
<1>4. Max(S) \in 1..m
  BY <1>2, <1>3
<1> QED
  BY <1>2, <1>4

\* A step for each of n places, and the fold of it over sets of places.
Stepping(n, A) == [A \X (1..n) -> A]
IsFold(g, n, base, F) ==
  \A S \in SUBSET (1..n) : g[S] = IF S = {} THEN base ELSE F[<<g[S \ {Max(S)}], Max(S)>>]

\* A fold that takes the last of a set of indices first exists, and stays in a set
\* that its step keeps.
LEMMA FoldExists ==
  ASSUME NEW n \in Nat, NEW A, NEW base \in A, NEW F \in Stepping(n, A)
  PROVE  \E g \in [SUBSET (1..n) -> A] : IsFold(g, n, base, F)
<1> USE DEF Stepping, IsFold
<1> DEFINE Folds(m, g) == IsFold(g, m, base, F)
           Bad == {m \in 0..n : ~\E g \in [SUBSET (1..m) -> A] : Folds(m, g)}
<1>1. 0 \notin Bad
  <2> DEFINE g == [S \in SUBSET (1..0) |-> base]
  <2>1. \A S \in SUBSET (1..0) : S = {}
    OBVIOUS
  <2>2. g \in [SUBSET (1..0) -> A] /\ Folds(0, g)
    BY <2>1
  <2> HIDE DEF g, Folds
  <2> QED
    BY <2>2
<1>2. ASSUME NEW m \in 1..n, m - 1 \notin Bad
      PROVE  m \notin Bad
  <2>1. m \in Nat /\ m - 1 \in 0..n
    OBVIOUS
  <2>2. PICK g \in [SUBSET (1..m - 1) -> A] : Folds(m - 1, g)
    BY <1>2, <2>1
  <2> DEFINE f == [S \in SUBSET (1..m) |->
                     IF m \in S THEN F[<<g[S \ {m}], m>>] ELSE g[S]]
  <2>3. \A S \in SUBSET (1..m) : /\ S \ {m} \in SUBSET (1..m - 1)
                                 /\ m \notin S => S \in SUBSET (1..m - 1)
                                 /\ m \in S => Max(S) = m
    BY <2>1, LastIndex
  <2>4. f \in [SUBSET (1..m) -> A]
    BY <2>2, <2>3
  <2>5. \A S \in SUBSET (1..m - 1) : S \in SUBSET (1..m) /\ f[S] = g[S]
    BY <2>1
  <2>6. Folds(m, f)
    <3> SUFFICES ASSUME NEW S \in SUBSET (1..m)
                 PROVE  f[S] = IF S = {} THEN base ELSE F[<<f[S \ {Max(S)}], Max(S)>>]
      OBVIOUS
    <3>1. CASE m \in S
      BY <2>3, <2>5, <3>1
    <3>2. CASE m \notin S
      <4>1. S \in SUBSET (1..m - 1) /\ S \ {Max(S)} \in SUBSET (1..m - 1)
        BY <2>3, <3>2
      <4>2. g[S] = IF S = {} THEN base ELSE F[<<g[S \ {Max(S)}], Max(S)>>]
        BY <2>2, <4>1
      <4> HIDE DEF f
      <4> QED
        BY <2>5, <4>1, <4>2
    <3> QED
      BY <3>1, <3>2
  <2> HIDE DEF f, Folds
  <2> QED
    BY <2>4, <2>6
<1>3. Bad = {}
  <2> SUFFICES ASSUME Bad # {} PROVE FALSE
    OBVIOUS
  <2>1. Bad \in SUBSET Nat
    OBVIOUS
  <2>2. \A m \in Bad : m \in 0..n
    OBVIOUS
  <2> HIDE DEF Bad
  <2>3. PICK m \in Bad : \A k \in Bad : m <= k
    BY <2>1, LeastExists
  <2>4. m \in 1..n
    BY <1>1, <2>2, <2>3
  <2>5. m - 1 \notin Bad
    BY <2>3, <2>4
  <2> QED
    BY <1>2, <2>3, <2>4, <2>5
<1>4. n \in 0..n
  OBVIOUS
<1> HIDE DEF Folds
<1>5. \E g \in [SUBSET (1..n) -> A] : Folds(n, g)
  BY <1>3, <1>4
<1> QED
  BY <1>5 DEF Folds

\* The events of a report are heard one after another.
HeardAll(r, ev) == FoldLeft(LAMBDA h, e : Heard(h, r, e), held, ev)

\* It takes one event after the other.
LEMMA HeardSteps ==
  ASSUME NEW r, NEW ev, IsSeq(ev)
  PROVE  \E h : /\ h[0] = held
                /\ \A k \in 1..Len(ev) : h[k] = Heard(h[k - 1], r, ev[k])
                /\ HeardAll(r, ev) = h[Len(ev)]
<1> DEFINE n == Len(ev)
           A == SUBSET (held \cup UNION {Pressed(r, ev[k]) : k \in 1..n})
           F == [x \in A \X (1..n) |-> Heard(x[1], r, ev[x[2]])]
           iter[s \in SUBSET (DOMAIN ev)] ==
             IF s = {} THEN held ELSE Heard(iter[s \ {Max(s)}], r, ev[Max(s)])
<1>1. n \in Nat /\ DOMAIN ev = 1..n
  BY SeqShape
<1>2. held \in A
  OBVIOUS
<1>3. F \in Stepping(n, A)
  <2> SUFFICES ASSUME NEW x \in A, NEW k \in 1..n
               PROVE  Heard(x, r, ev[k]) \in A
    BY DEF Stepping
  <2>1. Pressed(r, ev[k]) \subseteq UNION {Pressed(r, ev[i]) : i \in 1..n}
    OBVIOUS
  <2> QED
    BY <2>1 DEF Heard
<1>4. \A x \in A : \A k \in 1..n : F[<<x, k>>] = Heard(x, r, ev[k])
  OBVIOUS
<1> HIDE DEF A, F
<1>5. PICK g \in [SUBSET (1..n) -> A] : IsFold(g, n, held, F)
  <2>1. n \in Nat
    BY <1>1
  <2> HIDE DEF n, iter
  <2> QED
    BY <1>2, <1>3, <2>1, FoldExists
<1>6. \A S \in SUBSET (1..n) :
        S # {} => Max(S) \in 1..n /\ S \ {Max(S)} \in SUBSET (1..n)
  <2> HIDE DEF n
  <2> SUFFICES ASSUME NEW S \in SUBSET (1..n), S # {} PROVE Max(S) \in S
    OBVIOUS
  <2>1. S \in SUBSET (0..n)
    OBVIOUS
  <2> QED
    BY <1>1, <2>1, GreatestExists
<1>7. g = [S \in SUBSET (DOMAIN ev) |->
             IF S = {} THEN held ELSE Heard(g[S \ {Max(S)}], r, ev[Max(S)])]
  <2>1. \A S \in SUBSET (1..n) :
          g[S] = IF S = {} THEN held ELSE Heard(g[S \ {Max(S)}], r, ev[Max(S)])
    <3> SUFFICES ASSUME NEW S \in SUBSET (1..n)
                 PROVE  g[S] = IF S = {} THEN held ELSE Heard(g[S \ {Max(S)}], r, ev[Max(S)])
      OBVIOUS
    <3>1. CASE S = {}
      BY <1>5, <3>1 DEF IsFold
    <3>2. CASE S # {}
      <4>1. g[S] = F[<<g[S \ {Max(S)}], Max(S)>>] /\ g[S \ {Max(S)}] \in A /\ Max(S) \in 1..n
        BY <1>5, <1>6, <3>2 DEF IsFold
      <4> QED
        BY <1>4, <3>2, <4>1
    <3> QED
      BY <3>1, <3>2
  <2>2. g = [S \in SUBSET (1..n) |-> g[S]]
    OBVIOUS
  <2> HIDE DEF n
  <2> QED
    BY <1>1, <2>1, <2>2
<1>8. iter = [S \in SUBSET (DOMAIN ev) |->
                IF S = {} THEN held ELSE Heard(iter[S \ {Max(S)}], r, ev[Max(S)])]
  BY <1>7
<1>9. HeardAll(r, ev) = iter[DOMAIN ev]
  BY DEF HeardAll, FoldLeft, MapThenFoldSet
<1> HIDE DEF iter
<1> DEFINE h == [k \in 0..n |-> iter[1..k]]
<1>10. h[0] = held
  BY <1>1, <1>8
<1>11. ASSUME NEW k \in 1..n PROVE h[k] = Heard(h[k - 1], r, ev[k])
  <2>1. k \in Nat /\ k - 1 \in 0..n /\ k \in 0..n
    BY <1>1
  <2>2. 1..k \in SUBSET (1..k) /\ k \in 1..k /\ (1..k) \ {k} = 1..k - 1 /\ 1..k # {}
    BY <2>1
  <2>3. Max(1..k) = k
    BY <2>1, <2>2, LastIndex
  <2>4. 1..k \in SUBSET (DOMAIN ev)
    BY <1>1
  <2>5. iter[1..k] = Heard(iter[(1..k) \ {Max(1..k)}], r, ev[Max(1..k)])
    BY <1>8, <2>2, <2>4
  <2> QED
    BY <2>1, <2>2, <2>3, <2>5
<1>12. h[n] = iter[DOMAIN ev]
  BY <1>1
<1> HIDE DEF h, n
<1> QED
  BY <1>9, <1>10, <1>11, <1>12 DEF n

\* A function h that goes on from base as F says, for n steps.
IsRun(h, n, base, F) == h[0] = base /\ \A k \in 1..n : h[k] = F[<<h[k - 1], k>>]

\* There is such a function.
LEMMA RunExists ==
  ASSUME NEW n \in Nat, NEW A, NEW base \in A, NEW F \in Stepping(n, A)
  PROVE  \E h \in [0..n -> A] : IsRun(h, n, base, F)
<1>1. PICK g \in [SUBSET (1..n) -> A] : IsFold(g, n, base, F)
  BY FoldExists
<1> DEFINE h == [k \in 0..n |-> g[1..k]]
<1>2. \A k \in 0..n : 1..k \in SUBSET (1..n)
  OBVIOUS
<1>3. h \in [0..n -> A]
  BY <1>2
<1>4. h[0] = base
  <2>1. 1..0 = {} /\ h[0] = g[1..0] /\ 1..0 \in SUBSET (1..n)
    OBVIOUS
  <2> QED
    BY <1>1, <2>1 DEF IsFold
<1>5. ASSUME NEW k \in 1..n PROVE h[k] = F[<<h[k - 1], k>>]
  <2>1. k \in Nat /\ k - 1 \in 0..n /\ k \in 0..n
    OBVIOUS
  <2>2. 1..k \in SUBSET (1..k) /\ k \in 1..k /\ (1..k) \ {k} = 1..k - 1 /\ 1..k # {}
    BY <2>1
  <2>3. Max(1..k) = k
    BY <2>1, <2>2, LastIndex
  <2>4. g[1..k] = F[<<g[(1..k) \ {Max(1..k)}], Max(1..k)>>]
    BY <1>1, <1>2, <2>1, <2>2 DEF IsFold
  <2> QED
    BY <2>1, <2>2, <2>3, <2>4
<1> HIDE DEF h
<1> QED
  BY <1>3, <1>4, <1>5 DEF IsRun

\* Where the values of each of some sequences end when they are put one after another.
Ends(off, seqs) ==
  /\ off \in [0..Len(seqs) -> Nat] /\ off[0] = 0
  /\ \A i \in 1..Len(seqs) : off[i] = off[i - 1] + Len(seqs[i])

\* There are such ends.
LEMMA EndsExist ==
  ASSUME NEW seqs, IsSeq(seqs), \A i \in DOMAIN seqs : IsSeq(seqs[i])
  PROVE  \E off : Ends(off, seqs)
<1> DEFINE n == Len(seqs)
           F == [x \in Nat \X (1..n) |-> x[1] + Len(seqs[x[2]])]
<1>1. n \in Nat /\ DOMAIN seqs = 1..n /\ \A i \in 1..n : Len(seqs[i]) \in Nat
  BY SeqShape
<1>2. F \in Stepping(n, Nat)
  <2> HIDE DEF n
  <2> QED
    BY <1>1 DEF Stepping
<1>3. \A x \in Nat : \A i \in 1..n : F[<<x, i>>] = x + Len(seqs[i])
  OBVIOUS
<1> HIDE DEF F
<1>4. PICK off \in [0..n -> Nat] : IsRun(off, n, 0, F)
  <2> HIDE DEF n
  <2> QED
    BY <1>1, <1>2, RunExists
<1>5. \A i \in 1..n : off[i] = off[i - 1] + Len(seqs[i])
  <2> HIDE DEF n
  <2>1. \A i \in 1..n : i - 1 \in 0..n
    BY <1>1
  <2> QED
    BY <1>3, <1>4, <2>1 DEF IsRun
<1> QED
  BY <1>4, <1>5 DEF Ends, IsRun

\* They end in their order, and every place belongs to one of them.
LEMMA EndsGrow ==
  ASSUME NEW seqs, IsSeq(seqs), \A i \in DOMAIN seqs : IsSeq(seqs[i]),
         NEW off, Ends(off, seqs)
  PROVE  /\ \A i, j \in 0..Len(seqs) : i <= j => off[i] <= off[j]
         /\ \A p \in 1..off[Len(seqs)] :
              \E i \in 1..Len(seqs) : \E j \in 1..Len(seqs[i]) : p = off[i - 1] + j
<1> DEFINE n == Len(seqs)
           Low(i) == \A k \in 0..i : off[k] <= off[i]
           Bad == {i \in 0..n : ~Low(i)}
<1>1. n \in Nat /\ DOMAIN seqs = 1..n /\ \A i \in 1..n : Len(seqs[i]) \in Nat
  BY SeqShape
<1>2. /\ \A i \in 0..n : off[i] \in Nat
      /\ off[0] = 0 /\ \A i \in 1..n : off[i] = off[i - 1] + Len(seqs[i])
  BY DEF Ends
<1> HIDE DEF n
<1>3. Bad = {}
  <2> SUFFICES ASSUME Bad # {} PROVE FALSE
    OBVIOUS
  <2>1. Bad \in SUBSET Nat /\ \A i \in Bad : i \in 0..n /\ ~Low(i)
    BY <1>1
  <2>2. PICK i \in Bad : \A k \in Bad : i <= k
    <3> HIDE DEF Bad
    <3> QED
      BY <2>1, LeastExists
  <2>3. i # 0
    BY <1>2, <2>1
  <2>4. i \in 1..n /\ i - 1 \in 0..n /\ ~(i <= i - 1)
    BY <1>1, <2>1, <2>3
  <2>5. Low(i - 1)
    BY <2>2, <2>4
  <2>6. off[i - 1] <= off[i]
    BY <1>1, <1>2, <2>4
  <2>7. ASSUME NEW k \in 0..i PROVE off[k] <= off[i]
    <3>1. k \in 0..n
      BY <1>1, <2>4
    <3>2. CASE k = i
      BY <1>2, <3>1, <3>2
    <3>3. CASE k # i
      <4>1. k \in 0..i - 1
        BY <2>4, <3>3
      <4>2. off[k] <= off[i - 1] /\ off[k] \in Nat /\ off[i - 1] \in Nat /\ off[i] \in Nat
        BY <1>2, <2>4, <2>5, <3>1, <4>1
      <4> QED
        BY <2>6, <4>2
    <3> QED
      BY <3>2, <3>3
  <2> QED
    BY <2>1, <2>7
<1>4. \A i, j \in 0..n : i <= j => off[i] <= off[j]
  <2> SUFFICES ASSUME NEW i \in 0..n, NEW j \in 0..n, i <= j PROVE off[i] <= off[j]
    OBVIOUS
  <2>1. i \in 0..j /\ Low(j)
    BY <1>3
  <2> QED
    BY <2>1
<1> HIDE DEF Bad, Low
<1>5. ASSUME NEW p \in 1..off[n]
      PROVE  \E i \in 1..n : \E j \in 1..Len(seqs[i]) : p = off[i - 1] + j
  <2> DEFINE S == {i \in 0..n : p <= off[i]}
  <2>0. n \in 0..n /\ off[n] \in Nat /\ p \in Nat /\ p >= 1 /\ p <= off[n]
    BY <1>1, <1>2
  <2>1. S \in SUBSET Nat /\ n \in S /\ \A i \in S : i \in 0..n /\ p <= off[i]
    BY <2>0
  <2>2. PICK i \in S : \A k \in S : i <= k
    <3> HIDE DEF S
    <3> QED
      BY <2>1, LeastExists
  <2>3. i # 0
    BY <1>2, <2>0, <2>1
  <2>4. i \in 1..n /\ i - 1 \in 0..n /\ ~(i <= i - 1)
    BY <1>1, <2>1, <2>3
  <2>5. ~(p <= off[i - 1]) /\ p <= off[i]
    BY <2>1, <2>2, <2>4
  <2>6. /\ off[i] = off[i - 1] + Len(seqs[i]) /\ off[i - 1] \in Nat
        /\ Len(seqs[i]) \in Nat
    BY <1>1, <1>2, <2>4
  <2>7. p - off[i - 1] \in 1..Len(seqs[i]) /\ p = off[i - 1] + (p - off[i - 1])
    BY <2>0, <2>5, <2>6
  <2> QED
    BY <2>4, <2>7
<1> QED
  BY <1>4, <1>5 DEF n

\* A place that lies before another is within what ends before that one starts.
LEMMA EarlierPlace ==
  /\ \A n \in Nat : \A i \in 1..n : \A k \in 1..i :
       k # i => k \in 1..i - 1 /\ k \in 1..n /\ k \in 0..n /\ k - 1 \in 0..n /\ k <= i - 1
  /\ \A a, b, c, d \in Nat : \A j \in 1..d :
       c + d <= a => c + j \in 1..a + b /\ c + j <= a
OBVIOUS

\* FlattenSeq puts sequences one after another.
LEMMA Flattened ==
  ASSUME NEW seqs, IsSeq(seqs), \A i \in DOMAIN seqs : IsSeq(seqs[i]),
         NEW off, Ends(off, seqs)
  PROVE  /\ IsSeq(FlattenSeq(seqs)) /\ Len(FlattenSeq(seqs)) = off[Len(seqs)]
         /\ \A i \in 1..Len(seqs) : \A j \in 1..Len(seqs[i]) :
              FlattenSeq(seqs)[off[i - 1] + j] = seqs[i][j]
<1> DEFINE n == Len(seqs)
           T == UNION {Range(seqs[i]) : i \in 1..n}
           F == [x \in Seq(T) \X (1..n) |-> IF x[2] = 1 THEN seqs[1] ELSE x[1] \o seqs[x[2]]]
           flatten[i \in 1..Len(seqs)] ==
             IF i = 1 THEN seqs[i] ELSE flatten[i - 1] \o seqs[i]
<1>1. n \in Nat /\ DOMAIN seqs = 1..n /\ \A i \in 1..n : Len(seqs[i]) \in Nat
  BY SeqShape
<1>2. /\ \A i \in 0..n : off[i] \in Nat
      /\ off[0] = 0 /\ \A i \in 1..n : off[i] = off[i - 1] + Len(seqs[i])
  BY DEF Ends
<1>3. \A i, j \in 0..n : i <= j => off[i] <= off[j]
  BY EndsGrow
<1>4. CASE n = 0
  BY <1>1, <1>2, <1>4 DEF FlattenSeq
<1>5. CASE n # 0
  <2>1. \A i \in 1..n : seqs[i] \in Seq(T)
    BY <1>1, SeqWider
  <2>2. F \in Stepping(n, Seq(T))
    <3>1. \A x \in Seq(T) : \A i \in 1..n : 1 \in 1..n /\ x \o seqs[i] \in Seq(T)
      BY <1>1, <1>5, <2>1, ConcatProperties
    <3> HIDE DEF n, T
    <3> QED
      BY <2>1, <3>1 DEF Stepping
  <2>3. <<>> \in Seq(T)
    OBVIOUS
  <2>4. \A x \in Seq(T) : \A i \in 1..n :
          F[<<x, i>>] = IF i = 1 THEN seqs[1] ELSE x \o seqs[i]
    OBVIOUS
  <2> HIDE DEF T, F, flatten
  <2>5. PICK h \in [0..n -> Seq(T)] : IsRun(h, n, <<>>, F)
    <3> HIDE DEF n
    <3> QED
      BY <1>1, <2>2, <2>3, RunExists
  <2> DEFINE f == [i \in 1..n |-> h[i]]
  <2>6. \A i \in 1..n : h[i] = IF i = 1 THEN seqs[i] ELSE h[i - 1] \o seqs[i]
    <3> HIDE DEF n
    <3>1. \A i \in 1..n : i - 1 \in 0..n
      BY <1>1
    <3> QED
      BY <2>4, <2>5, <3>1 DEF IsRun
  <2>7. f = [i \in 1..n |-> IF i = 1 THEN seqs[i] ELSE f[i - 1] \o seqs[i]]
    <3> HIDE DEF n
    <3>1. \A i \in 1..n : i = 1 \/ i - 1 \in 1..n
      BY <1>1
    <3>2. \A i \in 1..n : f[i] = IF i = 1 THEN seqs[i] ELSE f[i - 1] \o seqs[i]
      BY <2>6, <3>1
    <3>3. f = [i \in 1..n |-> f[i]]
      OBVIOUS
    <3> HIDE DEF f
    <3> QED
      BY <3>2, <3>3
  <2>8. flatten = [i \in 1..n |-> IF i = 1 THEN seqs[i] ELSE flatten[i - 1] \o seqs[i]]
    <3> HIDE DEF f
    <3> QED
      BY <2>7 DEF flatten
  <2>9. FlattenSeq(seqs) = flatten[n]
    BY <1>5 DEF FlattenSeq, flatten
  <2> DEFINE Good(i) == /\ IsSeq(flatten[i]) /\ Len(flatten[i]) = off[i]
                        /\ \A k \in 1..i : \A j \in 1..Len(seqs[k]) :
                             flatten[i][off[k - 1] + j] = seqs[k][j]
             Bad == {i \in 1..n : ~Good(i)}
  <2> HIDE DEF n
  <2>10. Bad = {}
    <3> SUFFICES ASSUME Bad # {} PROVE FALSE
      OBVIOUS
    <3>1. Bad \in SUBSET Nat /\ \A i \in Bad : i \in 1..n /\ ~Good(i)
      BY <1>1
    <3>2. PICK i \in Bad : \A k \in Bad : i <= k
      <4> HIDE DEF Bad
      <4> QED
        BY <3>1, LeastExists
    <3>3. i \in 1..n /\ ~Good(i)
      BY <3>1
    <3>4. CASE i = 1
      <4>1. flatten[1] = seqs[1] /\ off[1] = Len(seqs[1]) /\ IsSeq(seqs[1])
        <5>1. 1 \in 1..n /\ 1 - 1 = 0
          BY <3>3, <3>4
        <5>2. flatten[1] = seqs[1]
          BY <2>8, <5>1
        <5>3. off[1] = off[0] + Len(seqs[1]) /\ off[0] = 0 /\ Len(seqs[1]) \in Nat
          BY <1>1, <1>2, <5>1
        <5>4. IsSeq(seqs[1])
          BY <1>1, <5>1
        <5> QED
          BY <5>2, <5>3, <5>4
      <4>2. \A k \in 1..1 : k = 1 /\ off[k - 1] = 0
        BY <1>2
      <4>3. \A k \in 1..1 : \A j \in 1..Len(seqs[k]) : flatten[1][off[k - 1] + j] = seqs[k][j]
        BY <4>1, <4>2
      <4>4. IsSeq(flatten[1]) /\ Len(flatten[1]) = off[1]
        BY <4>1, Zenon
      <4>5. Good(1)
        BY <4>3, <4>4
      <4> QED
        BY <3>3, <3>4, <4>5
    <3>5. CASE i # 1
      <4>1. i - 1 \in 1..n /\ i \in 0..n /\ i - 1 \in 0..n /\ ~(i <= i - 1)
        BY <1>1, <3>3, <3>5
      <4>2. Good(i - 1)
        BY <3>2, <4>1
      <4>3. flatten[i] = flatten[i - 1] \o seqs[i] /\ IsSeq(seqs[i]) /\ Len(seqs[i]) \in Nat
        BY <1>1, <2>8, <3>3, <3>5
      <4>4. /\ IsSeq(flatten[i]) /\ Len(flatten[i]) = off[i - 1] + Len(seqs[i])
            /\ \A p \in 1..off[i - 1] + Len(seqs[i]) :
                 flatten[i][p] = IF p <= off[i - 1] THEN flatten[i - 1][p]
                                 ELSE seqs[i][p - off[i - 1]]
        <5>1. PICK s : s = flatten[i - 1] /\ IsSeq(s) /\ Len(s) = off[i - 1]
          BY <4>2
        <5>2. PICK t : t = seqs[i] /\ IsSeq(t)
          BY <4>3
        <5>3. /\ IsSeq(s \o t) /\ Len(s \o t) = Len(s) + Len(t)
              /\ \A p \in 1..Len(s) + Len(t) :
                   (s \o t)[p] = IF p <= Len(s) THEN s[p] ELSE t[p - Len(s)]
          BY <5>1, <5>2, Joined
        <5> QED
          BY <4>3, <5>1, <5>2, <5>3
      <4>5. off[i] = off[i - 1] + Len(seqs[i]) /\ off[i - 1] \in Nat /\ off[i] \in Nat
        BY <1>2, <3>3, <4>1
      <4>6. ASSUME NEW k \in 1..i, NEW j \in 1..Len(seqs[k])
            PROVE  flatten[i][off[k - 1] + j] = seqs[k][j]
        <5>1. CASE k = i
          <6>1. PICK a \in Nat, b \in Nat : a = off[i - 1] /\ b = Len(seqs[i])
            BY <4>3, <4>5
          <6>2. a + j \in 1..a + b /\ ~(a + j <= a) /\ (a + j) - a = j
            BY <5>1, <6>1
          <6> QED
            BY <4>4, <5>1, <6>1, <6>2
        <5>2. CASE k # i
          <6>1. k \in 1..i - 1 /\ k \in 1..n /\ k \in 0..n /\ k - 1 \in 0..n /\ k <= i - 1
            BY <1>1, <3>3, <5>2, EarlierPlace
          <6>2. /\ off[k] <= off[i - 1] /\ off[k] = off[k - 1] + Len(seqs[k])
                /\ off[k] \in Nat /\ off[k - 1] \in Nat /\ Len(seqs[k]) \in Nat
            BY <1>1, <1>2, <1>3, <4>1, <6>1
          <6>3. PICK a \in Nat, b \in Nat, c \in Nat, d \in Nat :
                  a = off[i - 1] /\ b = Len(seqs[i]) /\ c = off[k - 1] /\ d = Len(seqs[k])
            BY <4>3, <4>5, <6>2
          <6>4. c + d <= a
            BY <6>2, <6>3
          <6>5. c + j \in 1..a + b /\ c + j <= a
            <7>1. j \in 1..d
              BY <6>3
            <7> QED
              BY <6>4, <7>1, EarlierPlace
          <6>6. flatten[i][c + j] = flatten[i - 1][c + j]
            BY <4>4, <6>3, <6>5
          <6>7. flatten[i - 1][off[k - 1] + j] = seqs[k][j]
            BY <4>2, <6>1
          <6> QED
            BY <6>3, <6>6, <6>7
        <5> QED
          BY <5>1, <5>2
      <4> QED
        BY <3>3, <4>4, <4>5, <4>6
    <3> QED
      BY <3>4, <3>5
  <2>11. n \in 1..n
    BY <1>1, <1>5
  <2>12. Good(n)
    BY <2>10, <2>11
  <2> QED
    BY <2>9, <2>12 DEF n
<1> QED
  BY <1>4, <1>5

\* So what is in one of them is in what they are put together to.
LEMMA FlattenedHolds ==
  ASSUME NEW seqs, IsSeq(seqs), \A i \in DOMAIN seqs : IsSeq(seqs[i])
  PROVE  /\ IsSeq(FlattenSeq(seqs))
         /\ \A i \in DOMAIN seqs : \A j \in DOMAIN seqs[i] :
              \E p \in DOMAIN FlattenSeq(seqs) : FlattenSeq(seqs)[p] = seqs[i][j]
         /\ \A p \in DOMAIN FlattenSeq(seqs) :
              \E i \in DOMAIN seqs : \E j \in DOMAIN seqs[i] : FlattenSeq(seqs)[p] = seqs[i][j]
<1> DEFINE all == FlattenSeq(seqs)
           n == Len(seqs)
<1>1. PICK off : Ends(off, seqs)
  BY EndsExist
<1>2. n \in Nat /\ DOMAIN seqs = 1..n
      /\ \A i \in 1..n : Len(seqs[i]) \in Nat /\ DOMAIN seqs[i] = 1..Len(seqs[i])
  BY SeqShape
<1>3. /\ IsSeq(all) /\ Len(all) = off[n]
      /\ \A i \in 1..n : \A j \in 1..Len(seqs[i]) : all[off[i - 1] + j] = seqs[i][j]
  BY <1>1, Flattened
<1>4. DOMAIN all = 1..off[n]
  BY <1>3, SeqShape
<1>5. /\ \A i, j \in 0..n : i <= j => off[i] <= off[j]
      /\ \A p \in 1..off[n] : \E i \in 1..n : \E j \in 1..Len(seqs[i]) : p = off[i - 1] + j
  BY <1>1, EndsGrow
<1>6. /\ \A i \in 0..n : off[i] \in Nat
      /\ \A i \in 1..n : off[i] = off[i - 1] + Len(seqs[i])
  BY <1>1 DEF Ends
<1> HIDE DEF all, n
<1>7. ASSUME NEW i \in DOMAIN seqs, NEW j \in DOMAIN seqs[i]
      PROVE  \E p \in DOMAIN all : all[p] = seqs[i][j]
  <2>1. i \in 1..n /\ i \in 0..n /\ i - 1 \in 0..n /\ n \in 0..n /\ i <= n /\ j \in 1..Len(seqs[i])
    BY <1>2
  <2>2. /\ off[i - 1] \in Nat /\ off[i] = off[i - 1] + Len(seqs[i]) /\ off[i] <= off[n]
        /\ off[n] \in Nat /\ Len(seqs[i]) \in Nat
    BY <1>2, <1>5, <1>6, <2>1
  <2>3. off[i - 1] + j \in 1..off[n]
    BY <2>1, <2>2
  <2> QED
    BY <1>3, <1>4, <2>1, <2>3
<1>8. ASSUME NEW p \in DOMAIN all
      PROVE  \E i \in DOMAIN seqs : \E j \in DOMAIN seqs[i] : all[p] = seqs[i][j]
  <2>1. PICK i \in 1..n : \E j \in 1..Len(seqs[i]) : p = off[i - 1] + j
    BY <1>4, <1>5
  <2>2. PICK j \in 1..Len(seqs[i]) : p = off[i - 1] + j
    BY <2>1
  <2>3. i \in DOMAIN seqs /\ j \in DOMAIN seqs[i]
    BY <1>2
  <2>4. all[p] = seqs[i][j]
    BY <1>3, <2>2
  <2> QED
    BY <2>3, <2>4
<1> QED
  BY <1>3, <1>7, <1>8 DEF all

-----------------------------------------------------------------------------
(* What the multipliers are.                                               *)

\* A feature field that holds one.
Scales(f) == f.count > 0 /\ Uses(f, Multiplier)

\* The multipliers are the feature fields with such a usage, and no others.
LEMMA MultipliersAre ==
  ASSUME ReportsSound, Unscaled
  PROVE  /\ IsSeq(Multipliers(reports))
         /\ \A k \in DOMAIN Multipliers(reports) :
              Multipliers(reports)[k] \in Features /\ Scales(Multipliers(reports)[k])
         /\ \A f \in Features : Scales(f) =>
              \E k \in DOMAIN Multipliers(reports) : Multipliers(reports)[k] = f
<1> DEFINE Markers(f) == {n \in DOMAIN f.usages : f.usages[n].hid = Multiplier}
           OfField(f) == IF f.count < 1 THEN <<>> ELSE [k \in 1..Cardinality(Markers(f)) |-> f]
           PerField(r) == [k \in DOMAIN r.fields |-> OfField(r.fields[k])]
           OfReport(r) == FlattenSeq(PerField(r))
           PerReport == [k \in DOMAIN reports |->
                           IF reports[k].type = "feature" THEN OfReport(reports[k]) ELSE <<>>]
<1>1. ASSUME NEW f, IsField(f), Plain(f)
      PROVE  /\ IsSeq(OfField(f))
             /\ \A k \in DOMAIN OfField(f) : OfField(f)[k] = f /\ Scales(f)
             /\ Scales(f) => \E k \in DOMAIN OfField(f) : OfField(f)[k] = f
  <2>1. IsFiniteSet(DOMAIN f.usages)
    <3>1. Len(f.usages) \in Nat /\ DOMAIN f.usages = 1..Len(f.usages)
      BY <1>1, SeqShape DEF Plain
    <3> QED
      BY <3>1, FS_Interval
  <2>2. IsFiniteSet(Markers(f))
    BY <2>1, FS_Subset
  <2>3. Cardinality(Markers(f)) \in Nat /\ (Cardinality(Markers(f)) = 0 <=> Markers(f) = {})
    BY <2>2, FS_CardinalityType, FS_EmptySet
  <2>4. Markers(f) # {} <=> Uses(f, Multiplier)
    BY DEF Uses, Range
  <2>5. f.count \in Nat
    BY <1>1 DEF IsField
  <2> DEFINE c == Cardinality(Markers(f))
  <2> HIDE DEF Markers
  <2>6. CASE f.count < 1
    BY <2>5, <2>6, EmptyIsSeq DEF Scales
  <2>7. CASE ~(f.count < 1)
    <3>1. OfField(f) = [k \in 1..c |-> f]
      BY <2>7
    <3>2. c \in Nat /\ (c = 0 <=> ~Uses(f, Multiplier))
      BY <2>3, <2>4
    <3> HIDE DEF c, OfField
    <3>3. IsSeq(OfField(f)) /\ DOMAIN OfField(f) = 1..c
      BY <3>1, <3>2, SeqMade
    <3>4. \A k \in 1..c : OfField(f)[k] = f /\ c # 0
      BY <3>1, <3>2
    <3>5. c # 0 => 1 \in 1..c
      BY <3>2
    <3> QED
      BY <2>5, <2>7, <3>2, <3>3, <3>4, <3>5 DEF Scales
  <2> QED
    BY <2>6, <2>7
<1>2. IsSeq(reports) /\ \A r \in DOMAIN reports : IsReport(reports[r])
  BY DEF ReportsSound
<1> HIDE DEF OfField
<1>3. ASSUME NEW r \in DOMAIN reports
      PROVE  /\ IsSeq(OfReport(reports[r]))
             /\ \A k \in DOMAIN OfReport(reports[r]) :
                  /\ OfReport(reports[r])[k] \in Range(reports[r].fields)
                  /\ Scales(OfReport(reports[r])[k])
             /\ \A f \in Range(reports[r].fields) : Scales(f) =>
                  \E k \in DOMAIN OfReport(reports[r]) : OfReport(reports[r])[k] = f
  <2> DEFINE F == reports[r].fields
             S == PerField(reports[r])
  <2>1. IsSeq(F) /\ Len(F) \in Nat /\ DOMAIN F = 1..Len(F)
    BY <1>2, <1>3, SeqShape DEF IsReport
  <2>2. \A k \in DOMAIN F : IsField(F[k]) /\ Plain(F[k])
    BY <1>2, <1>3 DEF IsReport, Unscaled
  <2>3. DOMAIN S = DOMAIN F /\ \A k \in DOMAIN F : S[k] = OfField(F[k])
    OBVIOUS
  <2>4. S = [k \in 1..Len(F) |-> S[k]]
    BY <2>1
  <2> HIDE DEF F, S
  <2>5. IsSeq(S)
    BY <2>1, <2>4, SeqMade
  <2>6. \A k \in DOMAIN S : IsSeq(S[k])
    BY <1>1, <2>2, <2>3
  <2>7. /\ IsSeq(FlattenSeq(S))
        /\ \A i \in DOMAIN S : \A j \in DOMAIN S[i] :
             \E p \in DOMAIN FlattenSeq(S) : FlattenSeq(S)[p] = S[i][j]
        /\ \A p \in DOMAIN FlattenSeq(S) :
             \E i \in DOMAIN S : \E j \in DOMAIN S[i] : FlattenSeq(S)[p] = S[i][j]
    BY <2>5, <2>6, FlattenedHolds
  <2>8. \A p \in DOMAIN FlattenSeq(S) :
          \E i \in DOMAIN F : FlattenSeq(S)[p] = F[i] /\ Scales(F[i])
    BY <1>1, <2>2, <2>3, <2>7
  <2>9. \A i \in DOMAIN F : Scales(F[i]) => \E p \in DOMAIN FlattenSeq(S) : FlattenSeq(S)[p] = F[i]
    <3> SUFFICES ASSUME NEW i \in DOMAIN F, Scales(F[i])
                 PROVE  \E p \in DOMAIN FlattenSeq(S) : FlattenSeq(S)[p] = F[i]
      OBVIOUS
    <3>1. PICK j \in DOMAIN OfField(F[i]) : OfField(F[i])[j] = F[i]
      BY <1>1, <2>2
    <3> QED
      BY <2>3, <2>7, <3>1
  <2>10. OfReport(reports[r]) = FlattenSeq(S)
    BY DEF S
  <2>11. /\ \A k \in DOMAIN OfReport(reports[r]) :
               OfReport(reports[r])[k] \in Range(F) /\ Scales(OfReport(reports[r])[k])
         /\ \A f \in Range(F) : Scales(f) =>
               \E k \in DOMAIN OfReport(reports[r]) : OfReport(reports[r])[k] = f
    <3> HIDE DEF OfReport
    <3> QED
      BY <2>8, <2>9, <2>10 DEF Range
  <2> QED
    BY <2>7, <2>10, <2>11 DEF F
<1>4. Multipliers(reports) = FlattenSeq(PerReport)
  BY DEF Multipliers, OfField
<1>5. DOMAIN PerReport = DOMAIN reports
      /\ \A r \in DOMAIN reports :
           PerReport[r] = IF reports[r].type = "feature" THEN OfReport(reports[r]) ELSE <<>>
  OBVIOUS
<1>6. PerReport = [k \in 1..Len(reports) |-> PerReport[k]] /\ Len(reports) \in Nat
  BY <1>2, SeqShape
<1> HIDE DEF PerReport, OfReport, PerField
<1>7. IsSeq(PerReport)
  BY <1>6, SeqMade
<1>8. \A r \in DOMAIN PerReport : IsSeq(PerReport[r])
  BY <1>3, <1>5, EmptyIsSeq
<1>9. /\ IsSeq(FlattenSeq(PerReport))
      /\ \A i \in DOMAIN PerReport : \A j \in DOMAIN PerReport[i] :
           \E p \in DOMAIN FlattenSeq(PerReport) : FlattenSeq(PerReport)[p] = PerReport[i][j]
      /\ \A p \in DOMAIN FlattenSeq(PerReport) :
           \E i \in DOMAIN PerReport : \E j \in DOMAIN PerReport[i] :
             FlattenSeq(PerReport)[p] = PerReport[i][j]
  BY <1>7, <1>8, FlattenedHolds
<1>10. ASSUME NEW p \in DOMAIN FlattenSeq(PerReport)
       PROVE  FlattenSeq(PerReport)[p] \in Features /\ Scales(FlattenSeq(PerReport)[p])
  <2>1. PICK i \in DOMAIN PerReport : \E j \in DOMAIN PerReport[i] :
          FlattenSeq(PerReport)[p] = PerReport[i][j]
    BY <1>9
  <2>2. PICK j \in DOMAIN PerReport[i] : FlattenSeq(PerReport)[p] = PerReport[i][j]
    BY <2>1
  <2>3. i \in DOMAIN reports /\ reports[i].type = "feature" /\ PerReport[i] = OfReport(reports[i])
    BY <1>5, <2>2, EmptyIsSeq
  <2>4. PerReport[i][j] \in Range(reports[i].fields) /\ Scales(PerReport[i][j])
    BY <1>3, <2>3
  <2>5. PerReport[i][j] \in Features
    BY <2>3, <2>4 DEF Features, Range
  <2> QED
    BY <2>2, <2>4, <2>5
<1>11. ASSUME NEW f \in Features, Scales(f)
       PROVE  \E p \in DOMAIN FlattenSeq(PerReport) : FlattenSeq(PerReport)[p] = f
  <2>1. PICK r \in DOMAIN reports : reports[r].type = "feature" /\ f \in Range(reports[r].fields)
    BY DEF Features, Range
  <2>2. PICK k \in DOMAIN OfReport(reports[r]) : OfReport(reports[r])[k] = f
    BY <1>3, <1>11, <2>1
  <2> QED
    BY <1>5, <1>9, <2>1, <2>2
<1> QED
  BY <1>4, <1>9, <1>10, <1>11

\* What eight bits keep is itself.
LEMMA Narrow == \A m \in -128..127 : S8(m) = m
<1> SUFFICES ASSUME NEW m \in -128..127 PROVE S8(m) = m
  OBVIOUS
<1>1. m + 128 \in Nat /\ m + 128 < 256
  OBVIOUS
<1>2. (m + 128) % 256 = m + 128
  BY <1>1
<1> QED
  BY <1>2 DEF S8

\* Every usage has the multiplier defined for it, among those the code can tell.
Defined == \A u \in InputUsages :
             (\A f \in Scaling(u) : Nested(f) /\ Fits(f)) => ScaledAsDefined(u)

\* The end of the descriptor gives it to each: the last of the multipliers that
\* apply to a usage is one of those defined for it, and if none applies none is.
LEMMA DefinedAtEnd ==
  ASSUME IInv, Unscaled, reports' = Scaled(reports), UNCHANGED collections
  PROVE  Defined'
<1> DEFINE ms == Multipliers(reports)
<1>1. IsSeq(ms) /\ Len(ms) \in Nat /\ DOMAIN ms = 1..Len(ms)
  BY MultipliersAre, SeqShape DEF IInv
<1>2. /\ \A k \in DOMAIN ms : ms[k] \in Features /\ Scales(ms[k])
      /\ \A f \in Features : Scales(f) => \E k \in DOMAIN ms : ms[k] = f
  BY MultipliersAre DEF IInv
<1>3. /\ DOMAIN reports' = DOMAIN reports
      /\ \A r \in DOMAIN reports :
           /\ reports'[r].type = reports[r].type
           /\ reports[r].type # "input" => reports'[r] = reports[r]
           /\ reports[r].type = "input" =>
                reports'[r].fields = [k \in DOMAIN reports[r].fields |->
                                        ScaledField(ms, reports[r].fields[k])]
  <2>1. \A r \in DOMAIN reports : {"type", "fields"} \subseteq DOMAIN reports[r]
    BY DEF IInv, ReportsSound, IsReport
  <2> HIDE DEF ms
  <2>2. reports' = [r \in DOMAIN reports |-> IF reports[r].type # "input" THEN reports[r]
                      ELSE [reports[r] EXCEPT
                              !.fields = [k \in DOMAIN @ |-> ScaledField(ms, @[k])]]]
    BY DEF Scaled, ms
  <2> QED
    BY <2>1, <2>2
<1>4. Features' = Features
  <2>1. \A f : f \in Features' <=>
               \E r \in DOMAIN reports' : /\ reports'[r].type = "feature"
                                         /\ f \in Range(reports'[r].fields)
    BY DEF Features, Range
  <2>2. \A f : f \in Features <=>
               \E r \in DOMAIN reports : /\ reports[r].type = "feature"
                                        /\ f \in Range(reports[r].fields)
    BY DEF Features, Range
  <2>3. \A r \in DOMAIN reports : reports'[r].type = "feature" => reports'[r] = reports[r]
    BY <1>3
  <2>4. \A r \in DOMAIN reports : reports[r].type = "feature" => reports'[r] = reports[r]
    BY <1>3
  <2>5. \A f : f \in Features' <=> f \in Features
    BY <1>3, <2>1, <2>2, <2>3, <2>4
  <2> QED
    BY <2>5
<1>5. /\ \A c : LogicalOf(c)' = LogicalOf(c)
      /\ \A c : CollectionAt(c)' = CollectionAt(c)
      /\ \A c : Enclosing(c)' = Enclosing(c)
  <2>1. Around' = Around
    BY DEF Around
  <2> QED
    BY <2>1, LogicalStays DEF CollectionAt, Enclosing
<1>6. \A u : Scaling(u)' = Scaling(u)
  BY <1>4, <1>5 DEF Scaling, LogicalOfField, Uses
<1>7. \A f : Nested(f)' = Nested(f) /\ Fits(f)' = Fits(f) /\ Calculated(f)' = Calculated(f)
  BY <1>5 DEF Nested, LogicalOfField, Fits, Calculated
<1>8. ASSUME NEW u \in InputUsages'
      PROVE  \E v : /\ u = ScaledUsage(ms, v) /\ u.coll = v.coll
                    /\ {"multiplier", "coll"} \subseteq DOMAIN v /\ v.multiplier = 1
  <2>1. PICK r \in DOMAIN reports' : /\ reports'[r].type = "input"
             /\ \E k \in DOMAIN reports'[r].fields :
                  \E n \in DOMAIN reports'[r].fields[k].usages : u = reports'[r].fields[k].usages[n]
    BY <1>8 DEF InputUsages, Range
  <2>2. PICK k \in DOMAIN reports'[r].fields :
          \E n \in DOMAIN reports'[r].fields[k].usages : u = reports'[r].fields[k].usages[n]
    BY <2>1
  <2>3. PICK n \in DOMAIN reports'[r].fields[k].usages : u = reports'[r].fields[k].usages[n]
    BY <2>2
  <2> DEFINE f == reports[r].fields[k]
  <2>4. r \in DOMAIN reports /\ k \in DOMAIN reports[r].fields
        /\ reports'[r].fields[k] = ScaledField(ms, f)
    <3> HIDE DEF ms
    <3>1. r \in DOMAIN reports /\ reports[r].type = "input"
      BY <1>3, <2>1
    <3>2. reports'[r].fields = [j \in DOMAIN reports[r].fields |->
                                  ScaledField(ms, reports[r].fields[j])]
      BY <1>3, <3>1
    <3>3. k \in DOMAIN reports[r].fields
      BY <3>2
    <3> QED
      BY <3>1, <3>2, <3>3
  <2>5. IsField(f) /\ Plain(f)
    BY <2>4 DEF IInv, ReportsSound, IsReport, Unscaled
  <2>6. SameField(f, ScaledField(ms, f))
    BY <2>5, ScaledFieldKeeps
  <2> HIDE DEF ms, f
  <2>7. ScaledField(ms, f).usages = [m \in DOMAIN f.usages |-> ScaledUsage(ms, f.usages[m])]
    BY <2>5 DEF ScaledField, IsField
  <2>8. n \in DOMAIN f.usages /\ u = ScaledUsage(ms, f.usages[n])
    BY <2>3, <2>4, <2>7
  <2>9. u.coll = f.usages[n].coll /\ "coll" \in DOMAIN f.usages[n]
    BY <2>5, <2>6, <2>7, <2>8 DEF SameField, IsField, Range
  <2>10. "multiplier" \in DOMAIN f.usages[n] /\ f.usages[n].multiplier = 1
    BY <2>5, <2>8 DEF Plain
  <2> QED
    BY <2>8, <2>9, <2>10
<1>9. ASSUME NEW u, NEW v, u = ScaledUsage(ms, v), u.coll = v.coll,
             {"multiplier", "coll"} \subseteq DOMAIN v, v.multiplier = 1,
             \A f \in Scaling(u) : Nested(f) /\ Fits(f)
      PROVE  ScaledAsDefined(u)
  <2> DEFINE applied == {k \in DOMAIN ms : Applies(LogicalOf(ms[k].usages[1].coll), v.coll)}
  <2>1. u = IF applied = {} THEN v
            ELSE [v EXCEPT !.multiplier = S8(Calculated(ms[Max(applied)]))]
    BY <1>9 DEF ScaledUsage
  <2> HIDE DEF ms
  <2>2. \A k \in DOMAIN ms : ms[k] \in Scaling(u) => k \in applied
    BY <1>9 DEF Scaling, Nested, LogicalOfField, Applies
  <2>3. \A k \in applied : k \in DOMAIN ms /\ ms[k] \in Scaling(u)
    BY <1>2, <1>9 DEF Scaling, Scales, LogicalOfField, Applies
  <2>4. \A f \in Scaling(u) : \E k \in DOMAIN ms : ms[k] = f
    BY <1>2 DEF Scaling, Scales
  <2>5. applied \in SUBSET (0..Len(ms))
    BY <1>1
  <2> HIDE DEF applied
  <2>6. CASE applied = {}
    <3>1. Scaling(u) = {}
      BY <2>2, <2>4, <2>6
    <3> QED
      BY <1>9, <2>1, <2>6, <3>1 DEF ScaledAsDefined
  <2>7. CASE applied # {}
    <3>1. Max(applied) \in applied
      BY <1>1, <2>5, <2>7, GreatestExists
    <3> DEFINE f == ms[Max(applied)]
    <3>2. f \in Scaling(u) /\ Calculated(f) \in -128..127
      BY <1>9, <2>3, <3>1 DEF Fits
    <3>3. u.multiplier = S8(Calculated(f))
      BY <1>9, <2>1, <2>7
    <3>4. S8(Calculated(f)) = Calculated(f)
      BY <3>2, Narrow
    <3> HIDE DEF f
    <3> QED
      BY <3>2, <3>3, <3>4 DEF ScaledAsDefined
  <2> QED
    BY <2>6, <2>7
<1> HIDE DEF ms
<1>10. \A u : ScaledAsDefined(u)' = ScaledAsDefined(u)
  BY <1>6, <1>7 DEF ScaledAsDefined
<1>11. ASSUME NEW u \in InputUsages',
              \A f \in Scaling(u)' : Nested(f)' /\ Fits(f)'
       PROVE  ScaledAsDefined(u)'
  <2>1. \A f \in Scaling(u) : Nested(f) /\ Fits(f)
    BY <1>6, <1>7, <1>11
  <2>2. PICK v : /\ u = ScaledUsage(ms, v) /\ u.coll = v.coll
                 /\ {"multiplier", "coll"} \subseteq DOMAIN v /\ v.multiplier = 1
    BY <1>8
  <2>3. ScaledAsDefined(u)
    BY <1>9, <2>1, <2>2
  <2> QED
    BY <1>10, <2>3
<1> QED
  BY <1>11 DEF Defined

\* It stays while neither reports nor collections change.
LEMMA DefinedStays ==
  ASSUME Defined, UNCHANGED <<reports, collections>>
  PROVE  Defined'
<1>1. InputUsages' = InputUsages /\ Features' = Features
  BY DEF InputUsages, Features
<1>2. /\ \A c : LogicalOf(c)' = LogicalOf(c)
      /\ \A c : CollectionAt(c)' = CollectionAt(c)
      /\ \A c : Enclosing(c)' = Enclosing(c)
  <2>1. Around' = Around
    BY DEF Around
  <2> QED
    BY <2>1, LogicalStays DEF CollectionAt, Enclosing
<1>3. \A u : Scaling(u)' = Scaling(u)
  BY <1>1, <1>2 DEF Scaling, LogicalOfField, Uses
<1>4. \A f : Nested(f)' = Nested(f) /\ Fits(f)' = Fits(f) /\ Calculated(f)' = Calculated(f)
  BY <1>2 DEF Nested, LogicalOfField, Fits, Calculated
<1>5. \A u : ScaledAsDefined(u)' = ScaledAsDefined(u)
  BY <1>3, <1>4 DEF ScaledAsDefined
<1> QED
  BY <1>1, <1>3, <1>4, <1>5 DEF Defined

\* Only the end of a descriptor leads to a parsed device without a driver.
LEMMA ParsedOnce ==
  ASSUME [Next]_vars, phase' = "parsed"
  PROVE  \/ phase = "parsed" /\ UNCHANGED <<reports, collections>>
         \/ phase = "parse" /\ reports' = Scaled(reports) /\ UNCHANGED collections
<1>1. CASE ParserNext
  <2>1. CASE ScanMain \/ ScanGlobal \/ ScanLocal \/ ScanReserved \/ ScanEnds
    BY <2>1 DEF ScanMain, ScanGlobal, ScanLocal, ScanReserved, ScanEnds, Fetched, Advance, Fresh
  <2>2. CASE ParseGlobal \/ ParseLocal \/ ParseReserved \/ ParseLong
    BY <2>2 DEF ParseGlobal, ParseLocal, ParseReserved, ParseLong, Fetched, Advance, Rejected
  <2>3. CASE BeginCollection \/ EndCollection \/ OtherMain
    BY <2>3 DEF BeginCollection, EndCollection, OtherMain, Fetched, MainDone, Advance, Rejected
  <2>4. CASE \E type \in {"input", "output", "feature"} : AddField(type)
    BY <2>4 DEF AddField, Fetched, MainDone, Advance, Rejected
  <2>5. CASE ParseEnds
    BY <2>5 DEF ParseEnds, Exhausted, Rejected
  <2> QED
    BY <1>1, <2>1, <2>2, <2>3, <2>4, <2>5 DEF ParserNext
<1>2. CASE Connect \/ Input \/ SetField \/ SetReport \/ GetReport
  BY <1>2 DEF Connect, Input, SetField, SetReport, GetReport, RawEvent, RestOfDevice
<1>3. CASE Reconnect
  BY <1>3 DEF Reconnect, Reopen, Fresh
<1>4. CASE UNCHANGED vars
  BY <1>4 DEF vars, hidVars
<1> QED
  BY <1>1, <1>2, <1>3, <1>4 DEF Next

\* For every descriptor that hid_open_report accepts: each input usage has the
\* multiplier that one of those defined for it gives, 1 if there is none, where the
\* code can tell it; and inputs of one logical collection are scaled alike, whatever
\* lies between it and them, whatever reports and settings come later.
THEOREM MultipliersShared == Spec => []SharedMultiplier
<1> DEFINE DInv == phase = "parsed" => Defined
<1>1. Init => DInv
  BY DEF Init, ParserInit
<1>2. IInv /\ MInv /\ DInv /\ [Next]_vars => DInv'
  <2> SUFFICES ASSUME IInv, MInv, DInv, [Next]_vars, phase' = "parsed" PROVE Defined'
    OBVIOUS
  <2>1. CASE phase = "parsed" /\ UNCHANGED <<reports, collections>>
    BY <2>1, DefinedStays
  <2>2. CASE phase = "parse" /\ reports' = Scaled(reports) /\ UNCHANGED collections
    <3>1. Unscaled
      BY <2>2 DEF MInv, Open
    <3> QED
      BY <2>2, <3>1, DefinedAtEnd
  <2> QED
    BY <2>1, <2>2, ParsedOnce
<1>3. MInv /\ DInv => SharedMultiplier
  BY SharedIs DEF SharedMultiplier, Defined
<1> QED
  BY <1>1, <1>2, <1>3, Invariance, ScalingInvariance, PTL DEF Spec

-----------------------------------------------------------------------------
(* Insertion by priority.                                                  *)

\* What has places 1 to n has a least of any of them.
LEMMA FirstIndex ==
  ASSUME NEW n \in Nat, NEW S \in SUBSET (1..n), S # {}
  PROVE  Min(S) \in S /\ \A x \in S : Min(S) <= x
<1>1. S \in SUBSET Nat
  OBVIOUS
<1>2. PICK m \in S : \A x \in S : m <= x
  BY <1>1, LeastExists
<1>3. \E x \in S : \A y \in S : x =< y
  BY <1>2
<1> QED
  BY <1>3 DEF Min

\* A value put before one of a sequence.
LEMMA PutBefore ==
  ASSUME NEW s, IsSeq(s), NEW i \in 1..Len(s), NEW e
  PROVE  /\ IsSeq(InsertAt(s, i, e)) /\ Len(InsertAt(s, i, e)) = Len(s) + 1
         /\ \A k \in 1..Len(s) + 1 :
              InsertAt(s, i, e)[k] = IF k < i THEN s[k] ELSE IF k = i THEN e ELSE s[k - 1]
<1> DEFINE T == Range(s) \cup {e}
           n == Len(s)
           a == SubSeq(s, 1, i - 1)
           b == SubSeq(s, i, n)
<1>1. n \in Nat /\ DOMAIN s = 1..n /\ i \in 1..n
  BY SeqShape
<1>2. s \in Seq(T)
  BY SeqWider
<1>0. PICK w : w = <<e>> /\ IsSeq(w) /\ Len(w) = 1 /\ w[1] = e
  <2>1. <<e>> \in Seq({e}) /\ Len(<<e>>) = 1 /\ <<e>>[1] = e
    OBVIOUS
  <2>2. IsSeq(<<e>>)
    BY <2>1, SeqNarrow
  <2> QED
    BY <2>1, <2>2
<1>3. IsSeq(a) /\ Len(a) = i - 1 /\ \A k \in 1..i - 1 : a[k] = s[k]
  <2>1. \A k \in 1..i - 1 : s[k] \in T
    BY <1>1, <1>2, ElementOfSeq
  <2>2. /\ a \in Seq(T) /\ Len(a) = IF 1 <= i - 1 THEN (i - 1) - 1 + 1 ELSE 0
        /\ \A k \in 1..(i - 1) - 1 + 1 : a[k] = s[1 + k - 1]
    BY <1>1, <2>1, SubSeqProperties
  <2>3. Len(a) = i - 1 /\ \A k \in 1..i - 1 : a[k] = s[k]
    BY <1>1, <2>2
  <2> QED
    BY <2>2, <2>3, SeqNarrow
<1>4. IsSeq(b) /\ Len(b) = n - i + 1 /\ \A k \in 1..n - i + 1 : b[k] = s[i + k - 1]
  <2>1. \A k \in i..n : s[k] \in T
    BY <1>1, <1>2, ElementOfSeq
  <2>2. /\ b \in Seq(T) /\ Len(b) = IF i <= n THEN n - i + 1 ELSE 0
        /\ \A k \in 1..n - i + 1 : b[k] = s[i + k - 1]
    BY <1>1, <2>1, SubSeqProperties
  <2>3. Len(b) = n - i + 1
    BY <1>1, <2>2
  <2> QED
    BY <2>2, <2>3, SeqNarrow
<1> DEFINE c == a \o w
<1> HIDE DEF a, b, n, T
<1>5. /\ IsSeq(c) /\ Len(c) = i
      /\ \A k \in 1..i : c[k] = IF k < i THEN s[k] ELSE e
  <2>1. /\ IsSeq(c) /\ Len(c) = Len(a) + Len(w)
        /\ \A k \in 1..Len(a) + Len(w) : c[k] = IF k <= Len(a) THEN a[k] ELSE w[k - Len(a)]
    BY <1>0, <1>3, Joined
  <2>2. i \in Nat
    BY <1>1
  <2>3. (i - 1) + 1 = i /\ \A k \in 1..i : /\ k < i <=> k <= i - 1
                                           /\ ~(k < i) => k - (i - 1) = 1
                                           /\ k < i => k \in 1..i - 1
    BY <2>2
  <2> QED
    BY <1>0, <1>3, <2>1, <2>3
<1> HIDE DEF c
<1>6. /\ IsSeq(c \o b) /\ Len(c \o b) = i + (n - i + 1)
      /\ \A k \in 1..i + (n - i + 1) : (c \o b)[k] = IF k <= i THEN c[k] ELSE b[k - i]
  BY <1>4, <1>5, Joined
<1>7. i + (n - i + 1) = n + 1
  BY <1>1
<1>8. \A k \in 1..n + 1 : (c \o b)[k] = IF k < i THEN s[k] ELSE IF k = i THEN e ELSE s[k - 1]
  <2> SUFFICES ASSUME NEW k \in 1..n + 1
               PROVE  (c \o b)[k] = IF k < i THEN s[k] ELSE IF k = i THEN e ELSE s[k - 1]
    OBVIOUS
  <2>1. CASE k <= i
    <3>1. k \in 1..i
      BY <1>1, <2>1
    <3>2. (c \o b)[k] = c[k]
      BY <1>6, <1>7, <2>1
    <3>3. ~(k < i) => k = i
      BY <1>1, <2>1
    <3> QED
      BY <1>5, <3>1, <3>2, <3>3
  <2>2. CASE ~(k <= i)
    <3>1. k - i \in 1..n - i + 1 /\ i + (k - i) - 1 = k - 1 /\ ~(k < i) /\ k # i
      BY <1>1, <2>2
    <3>2. (c \o b)[k] = b[k - i]
      BY <1>6, <1>7, <2>2
    <3> QED
      BY <1>4, <3>1, <3>2
  <2> QED
    BY <2>1, <2>2
<1>9. InsertAt(s, i, e) = c \o b
  BY <1>0 DEF InsertAt, a, b, c, n
<1> QED
  BY <1>6, <1>7, <1>8, <1>9 DEF n

\* An entry is put before the first one of lower priority, or comes last.
LEMMA Inserted ==
  ASSUME NEW s, IsSeq(s), NEW e
  PROVE  /\ IsSeq(Insert(s, e)) /\ Len(Insert(s, e)) = Len(s) + 1
         /\ \E i \in 1..Len(s) + 1 :
              /\ \A k \in 1..Len(s) + 1 :
                   Insert(s, e)[k] = IF k < i THEN s[k] ELSE IF k = i THEN e ELSE s[k - 1]
              /\ \A k \in 1..Len(s) : k < i => ~(e.priority > s[k].priority)
              /\ i <= Len(s) => e.priority > s[i].priority
<1> DEFINE n == Len(s)
           lower == {k \in DOMAIN s : e.priority > s[k].priority}
<1>1. n \in Nat /\ DOMAIN s = 1..n
  BY SeqShape
<1>2. CASE lower = {}
  <2>1. Insert(s, e) = Append(s, e)
    BY <1>2 DEF Insert
  <2>2. IsSeq(Insert(s, e)) /\ Len(Insert(s, e)) = n + 1
    BY <2>1, Appended
  <2>3. \A k \in 1..n + 1 :
          Insert(s, e)[k] = IF k < n + 1 THEN s[k] ELSE IF k = n + 1 THEN e ELSE s[k - 1]
    <3>1. \A k \in 1..n + 1 : (k < n + 1 => k \in 1..n) /\ (~(k < n + 1) => k = n + 1)
      BY <1>1
    <3> QED
      BY <2>1, <3>1, Appended
  <2>4. \A k \in 1..n : ~(e.priority > s[k].priority)
    BY <1>1, <1>2
  <2>5. n + 1 \in 1..n + 1 /\ ~(n + 1 <= n)
    BY <1>1
  <2> QED
    BY <2>2, <2>3, <2>4, <2>5
<1>3. CASE lower # {}
  <2> DEFINE i == Min(lower)
  <2>1. Insert(s, e) = InsertAt(s, i, e)
    BY <1>3 DEF Insert
  <2>2. i \in lower /\ \A k \in lower : i <= k
    <3>1. lower \in SUBSET (1..n)
      BY <1>1
    <3> HIDE DEF lower, n
    <3> QED
      BY <1>1, <1>3, <3>1, FirstIndex
  <2>3. i \in 1..n /\ e.priority > s[i].priority
    BY <1>1, <2>2
  <2>4. \A k \in 1..n : k < i => k \notin lower
    <3> HIDE DEF lower, i, n
    <3> QED
      BY <2>2, <2>3
  <2>5. \A k \in 1..n : k < i => ~(e.priority > s[k].priority)
    BY <1>1, <2>4
  <2> HIDE DEF i, lower
  <2>6. i \in 1..n + 1
    BY <1>1, <2>3
  <2> QED
    BY <2>1, <2>3, <2>5, <2>6, PutBefore
<1> QED
  BY <1>2, <1>3

\* Entries are inserted one after another.
LEMMA InsertSteps ==
  ASSUME NEW E, IsSeq(E)
  PROVE  \E h : /\ h[0] = <<>>
                /\ \A k \in 1..Len(E) : h[k] = Insert(h[k - 1], E[k])
                /\ FoldLeft(Insert, <<>>, E) = h[Len(E)]
<1> DEFINE n == Len(E)
           T == Range(E)
           A == Seq(T)
           F == [x \in A \X (1..n) |-> Insert(x[1], E[x[2]])]
           iter[s \in SUBSET (DOMAIN E)] ==
             IF s = {} THEN <<>> ELSE Insert(iter[s \ {Max(s)}], E[Max(s)])
<1>1. n \in Nat /\ DOMAIN E = 1..n
  BY SeqShape
<1>2. <<>> \in A
  OBVIOUS
<1>3. F \in Stepping(n, A)
  <2> SUFFICES ASSUME NEW x \in A, NEW k \in 1..n
               PROVE  Insert(x, E[k]) \in A
    BY DEF Stepping
  <2>1. IsSeq(x) /\ DOMAIN x = 1..Len(x) /\ \A j \in 1..Len(x) : x[j] \in T
    BY SeqNarrow, SeqShape, ElementOfSeq
  <2>2. E[k] \in T
    BY <1>1 DEF Range
  <2> DEFINE y == Insert(x, E[k])
  <2>3. IsSeq(y) /\ Len(y) = Len(x) + 1 /\ Len(x) \in Nat
    BY <2>1, Inserted, SeqShape
  <2>4. PICK i \in 1..Len(x) + 1 :
          \A j \in 1..Len(x) + 1 : y[j] = IF j < i THEN x[j] ELSE IF j = i THEN E[k] ELSE x[j - 1]
    <3>1. IsSeq(x)
      BY <2>1
    <3>2. \E i \in 1..Len(x) + 1 :
            /\ \A j \in 1..Len(x) + 1 :
                 Insert(x, E[k])[j] = IF j < i THEN x[j] ELSE IF j = i THEN E[k] ELSE x[j - 1]
            /\ \A j \in 1..Len(x) : j < i => ~(E[k].priority > x[j].priority)
            /\ i <= Len(x) => E[k].priority > x[i].priority
      <4> HIDE DEF A, F, iter, y, T, n
      <4> QED
        BY <3>1, Inserted
    <3>3. y = Insert(x, E[k])
      OBVIOUS
    <3> HIDE DEF A, F, iter, y, T, n
    <3> QED
      BY <3>2, <3>3
  <2> HIDE DEF y, T
  <2>5. \A j \in 1..Len(x) + 1 : (j < i => j \in 1..Len(x)) /\ (~(j < i) /\ j # i => j - 1 \in 1..Len(x))
    BY <2>3
  <2>6. \A j \in 1..Len(x) + 1 : y[j] \in T
    BY <2>1, <2>2, <2>4, <2>5
  <2>7. DOMAIN y = 1..Len(x) + 1
    BY <2>3, SeqShape
  <2>8. Range(y) \subseteq T
    BY <2>6, <2>7 DEF Range
  <2> QED
    BY <2>3, <2>8, SeqWider DEF y
<1>4. \A x \in A : \A k \in 1..n : F[<<x, k>>] = Insert(x, E[k])
  OBVIOUS
<1> HIDE DEF A, F
<1>5. PICK g \in [SUBSET (1..n) -> A] : IsFold(g, n, <<>>, F)
  <2>1. n \in Nat
    BY <1>1
  <2> HIDE DEF n, iter
  <2> QED
    BY <1>2, <1>3, <2>1, FoldExists
<1>6. \A S \in SUBSET (1..n) :
        S # {} => Max(S) \in 1..n /\ S \ {Max(S)} \in SUBSET (1..n)
  <2> HIDE DEF n
  <2> SUFFICES ASSUME NEW S \in SUBSET (1..n), S # {} PROVE Max(S) \in S
    OBVIOUS
  <2>1. S \in SUBSET (0..n)
    OBVIOUS
  <2> QED
    BY <1>1, <2>1, GreatestExists
<1>7. g = [S \in SUBSET (DOMAIN E) |->
             IF S = {} THEN <<>> ELSE Insert(g[S \ {Max(S)}], E[Max(S)])]
  <2>1. \A S \in SUBSET (1..n) :
          g[S] = IF S = {} THEN <<>> ELSE Insert(g[S \ {Max(S)}], E[Max(S)])
    <3> SUFFICES ASSUME NEW S \in SUBSET (1..n)
                 PROVE  g[S] = IF S = {} THEN <<>> ELSE Insert(g[S \ {Max(S)}], E[Max(S)])
      OBVIOUS
    <3>1. CASE S = {}
      BY <1>5, <3>1 DEF IsFold
    <3>2. CASE S # {}
      <4>1. g[S] = F[<<g[S \ {Max(S)}], Max(S)>>] /\ g[S \ {Max(S)}] \in A /\ Max(S) \in 1..n
        BY <1>5, <1>6, <3>2 DEF IsFold
      <4> QED
        BY <1>4, <3>2, <4>1
    <3> QED
      BY <3>1, <3>2
  <2>2. g = [S \in SUBSET (1..n) |-> g[S]]
    OBVIOUS
  <2> HIDE DEF n
  <2> QED
    BY <1>1, <2>1, <2>2
<1>8. iter = [S \in SUBSET (DOMAIN E) |->
                IF S = {} THEN <<>> ELSE Insert(iter[S \ {Max(S)}], E[Max(S)])]
  BY <1>7
<1>9. FoldLeft(Insert, <<>>, E) = iter[DOMAIN E]
  BY DEF FoldLeft, MapThenFoldSet
<1> HIDE DEF iter
<1> DEFINE h == [k \in 0..n |-> iter[1..k]]
<1>10. h[0] = <<>>
  BY <1>1, <1>8
<1>11. ASSUME NEW k \in 1..n PROVE h[k] = Insert(h[k - 1], E[k])
  <2>1. k \in Nat /\ k - 1 \in 0..n /\ k \in 0..n
    BY <1>1
  <2>2. 1..k \in SUBSET (1..k) /\ k \in 1..k /\ (1..k) \ {k} = 1..k - 1 /\ 1..k # {}
    BY <2>1
  <2>3. Max(1..k) = k
    BY <2>1, <2>2, LastIndex
  <2>4. 1..k \in SUBSET (DOMAIN E)
    BY <1>1
  <2>5. iter[1..k] = Insert(iter[(1..k) \ {Max(1..k)}], E[Max(1..k)])
    BY <1>8, <2>2, <2>4
  <2> QED
    BY <2>1, <2>2, <2>3, <2>5
<1>12. h[n] = iter[DOMAIN E]
  BY <1>1
<1> HIDE DEF h, n
<1> QED
  BY <1>9, <1>10, <1>11, <1>12 DEF n

\* Entries, in the order of the descriptor, and by priority and then in that order.
IsEntry(e) == e.priority \in Int /\ e.field \in Nat /\ e.usage \in Nat
Earlier(d, e) == d.field < e.field \/ (d.field = e.field /\ d.usage < e.usage)
Above(d, e) == d.priority > e.priority \/ (d.priority = e.priority /\ Earlier(d, e))

\* The first k entries of E are those of s, by priority.
Sorted(s, E, k) ==
  /\ IsSeq(s) /\ Len(s) = k
  /\ \A p \in 1..k : \E m \in 1..k : s[p] = E[m]
  /\ \A m \in 1..k : \E p \in 1..k : s[p] = E[m]
  /\ \A p, q \in 1..k : p < q => Above(s[p], s[q])

\* One more entry is put where it belongs.
LEMMA SortedMore ==
  ASSUME NEW E, NEW k \in Nat, NEW s, Sorted(s, E, k),
         \A m \in 1..k + 1 : IsEntry(E[m]),
         \A m \in 1..k : Earlier(E[m], E[k + 1])
  PROVE  Sorted(Insert(s, E[k + 1]), E, k + 1)
<1> DEFINE e == E[k + 1]
           t == Insert(s, e)
<1>1. IsSeq(s) /\ Len(s) = k
  BY DEF Sorted
<1>2. IsSeq(t) /\ Len(t) = k + 1
  BY <1>1, Inserted
<1>3. PICK i \in 1..k + 1 :
        /\ \A p \in 1..k + 1 : t[p] = IF p < i THEN s[p] ELSE IF p = i THEN e ELSE s[p - 1]
        /\ \A p \in 1..k : p < i => ~(e.priority > s[p].priority)
        /\ i <= k => e.priority > s[i].priority
  BY <1>1, Inserted
<1>4. \A p \in 1..k : IsEntry(s[p]) /\ Earlier(s[p], e)
  <2> SUFFICES ASSUME NEW p \in 1..k PROVE IsEntry(s[p]) /\ Earlier(s[p], e)
    OBVIOUS
  <2>1. PICK m \in 1..k : s[p] = E[m]
    BY DEF Sorted
  <2>2. m \in 1..k + 1
    OBVIOUS
  <2> QED
    BY <2>1, <2>2
<1>5. IsEntry(e)
  OBVIOUS
<1> HIDE DEF t, e
<1>6. \A p \in 1..k + 1 :
        /\ p < i => p \in 1..k
        /\ ~(p < i) /\ p # i => p - 1 \in 1..k /\ i <= p - 1 /\ i <= k
  OBVIOUS
<1>7. \A p \in 1..k + 1 : \E m \in 1..k + 1 : t[p] = E[m]
  <2> SUFFICES ASSUME NEW p \in 1..k + 1 PROVE \E m \in 1..k + 1 : t[p] = E[m]
    OBVIOUS
  <2>1. CASE p = i
    BY <1>3, <2>1 DEF e
  <2>2. CASE p # i
    <3>1. PICK q \in 1..k : t[p] = s[q]
      BY <1>3, <1>6, <2>2
    <3>2. PICK m \in 1..k : s[q] = E[m]
      BY DEF Sorted
    <3>3. m \in 1..k + 1
      OBVIOUS
    <3> QED
      BY <3>1, <3>2, <3>3
  <2> QED
    BY <2>1, <2>2
<1>8. \A m \in 1..k + 1 : \E p \in 1..k + 1 : t[p] = E[m]
  <2> SUFFICES ASSUME NEW m \in 1..k + 1 PROVE \E p \in 1..k + 1 : t[p] = E[m]
    OBVIOUS
  <2>1. CASE m = k + 1
    BY <1>3, <2>1 DEF e
  <2>2. CASE m # k + 1
    <3>1. m \in 1..k
      BY <2>2
    <3>2. PICK q \in 1..k : s[q] = E[m]
      BY <3>1 DEF Sorted
    <3>3. CASE q < i
      <4>1. q \in 1..k + 1
        OBVIOUS
      <4> QED
        BY <1>3, <3>2, <3>3, <4>1
    <3>4. CASE ~(q < i)
      <4>1. q + 1 \in 1..k + 1 /\ ~(q + 1 < i) /\ q + 1 # i /\ (q + 1) - 1 = q
        BY <3>4
      <4>2. t[q + 1] = s[q]
        BY <1>3, <4>1
      <4> QED
        BY <3>2, <4>1, <4>2
    <3> QED
      BY <3>3, <3>4
  <2> QED
    BY <2>1, <2>2
<1>9. ASSUME NEW p \in 1..k + 1, NEW q \in 1..k + 1, p < q
      PROVE  Above(t[p], t[q])
  <2>0. \A a, b \in 1..k : a < b => Above(s[a], s[b])
    BY DEF Sorted
  <2>1. CASE q < i
    <3>1. p < i /\ p \in 1..k /\ q \in 1..k
      BY <1>9, <2>1
    <3> QED
      BY <1>3, <1>9, <2>0, <2>1, <3>1
  <2>2. CASE q = i
    <3>1. p < i /\ p \in 1..k
      BY <1>9, <2>2
    <3>2. t[p] = s[p] /\ t[q] = e /\ ~(e.priority > s[p].priority)
      BY <1>3, <2>2, <3>1
    <3>3. s[p].priority \in Int /\ e.priority \in Int /\ Earlier(s[p], e)
      BY <1>4, <1>5, <3>1 DEF IsEntry
    <3> QED
      BY <3>2, <3>3 DEF Above
  <2>3. CASE q > i /\ p < i
    <3>1. p \in 1..k /\ q - 1 \in 1..k /\ p < q - 1 /\ ~(q < i) /\ q # i
      BY <1>6, <2>3
    <3>2. t[p] = s[p] /\ t[q] = s[q - 1]
      BY <1>3, <2>3, <3>1
    <3> QED
      BY <2>0, <3>1, <3>2
  <2>4. CASE q > i /\ p = i
    <3>1. i \in 1..k /\ q - 1 \in 1..k /\ ~(q < i) /\ q # i /\ i <= k /\ (i = q - 1 \/ i < q - 1)
      BY <1>6, <2>4
    <3>2. t[p] = e /\ t[q] = s[q - 1] /\ e.priority > s[i].priority
      BY <1>3, <2>4, <3>1
    <3>3. i = q - 1 \/ Above(s[i], s[q - 1])
      BY <2>0, <3>1
    <3>4. s[i].priority \in Int /\ s[q - 1].priority \in Int /\ e.priority \in Int
      BY <1>4, <1>5, <3>1 DEF IsEntry
    <3>5. s[i].priority >= s[q - 1].priority
      BY <3>3, <3>4 DEF Above
    <3>6. e.priority > s[q - 1].priority
      BY <3>2, <3>4, <3>5
    <3> QED
      BY <3>2, <3>6 DEF Above
  <2>5. CASE p > i
    <3>1. p - 1 \in 1..k /\ q - 1 \in 1..k /\ p - 1 < q - 1
          /\ ~(p < i) /\ p # i /\ ~(q < i) /\ q # i
      BY <1>6, <1>9, <2>5
    <3>2. t[p] = s[p - 1] /\ t[q] = s[q - 1]
      BY <1>3, <3>1
    <3> QED
      BY <2>0, <3>1, <3>2
  <2>6. q < i \/ q = i \/ (q > i /\ p < i) \/ (q > i /\ p = i) \/ p > i
    BY <1>9
  <2> QED
    BY <2>1, <2>2, <2>3, <2>4, <2>5, <2>6
<1> QED
  BY <1>2, <1>7, <1>8, <1>9 DEF Sorted, t, e

\* Insertion sorts entries that come in the order of the descriptor.
LEMMA InsertionSorts ==
  ASSUME NEW E, IsSeq(E), \A m \in 1..Len(E) : IsEntry(E[m]),
         \A l, m \in 1..Len(E) : l < m => Earlier(E[l], E[m])
  PROVE  Sorted(FoldLeft(Insert, <<>>, E), E, Len(E))
<1> DEFINE n == Len(E)
<1>1. n \in Nat
  BY SeqShape
<1>2. PICK h : /\ h[0] = <<>>
               /\ \A k \in 1..n : h[k] = Insert(h[k - 1], E[k])
               /\ FoldLeft(Insert, <<>>, E) = h[n]
  BY InsertSteps
<1> DEFINE Bad == {k \in 0..n : ~Sorted(h[k], E, k)}
<1> HIDE DEF n
<1>3. Bad = {}
  <2> SUFFICES ASSUME Bad # {} PROVE FALSE
    OBVIOUS
  <2>1. Bad \in SUBSET Nat /\ \A k \in Bad : k \in 0..n /\ ~Sorted(h[k], E, k)
    BY <1>1
  <2>2. PICK k \in Bad : \A m \in Bad : k <= m
    <3> HIDE DEF Bad
    <3> QED
      BY <2>1, LeastExists
  <2>3. k \in 0..n /\ ~Sorted(h[k], E, k)
    BY <2>1
  <2>4. CASE k = 0
    <3>1. IsSeq(h[0]) /\ Len(h[0]) = 0
      BY <1>2, EmptyIsSeq
    <3>2. \A p \in 1..0 : FALSE
      OBVIOUS
    <3>3. Sorted(h[0], E, 0)
      BY <3>1, <3>2 DEF Sorted
    <3> QED
      BY <2>3, <2>4, <3>3
  <2>5. CASE k # 0
    <3>1. k \in 1..n /\ k - 1 \in 0..n /\ k - 1 \in Nat /\ ~(k <= k - 1) /\ (k - 1) + 1 = k
      BY <1>1, <2>3, <2>5
    <3>2. Sorted(h[k - 1], E, k - 1)
      BY <2>2, <3>1
    <3>3. h[k] = Insert(h[k - 1], E[k])
      BY <1>2, <3>1
    <3>4. /\ \A m \in 1..k : m \in 1..n
          /\ \A m \in 1..k - 1 : m \in 1..n /\ m < k
      BY <1>1, <3>1
    <3>5. /\ \A m \in 1..(k - 1) + 1 : IsEntry(E[m])
          /\ \A m \in 1..k - 1 : Earlier(E[m], E[(k - 1) + 1])
      BY <3>1, <3>4 DEF n
    <3>6. Sorted(Insert(h[k - 1], E[(k - 1) + 1]), E, (k - 1) + 1)
      BY <3>1, <3>2, <3>5, SortedMore
    <3> QED
      BY <2>3, <3>1, <3>3, <3>6
  <2> QED
    BY <2>4, <2>5
<1>4. n \in 0..n
  BY <1>1
<1>5. Sorted(h[n], E, n)
  BY <1>3, <1>4
<1> QED
  BY <1>2, <1>5 DEF n

-----------------------------------------------------------------------------
(* Sequences one after another.                                            *)

\* Where the values of some sequences come when they are put one after another.
Laid(pos, seqs) ==
  /\ \A i \in 1..Len(seqs) : \A j \in 1..Len(seqs[i]) :
       /\ pos[<<i, j>>] \in 1..Len(FlattenSeq(seqs))
       /\ FlattenSeq(seqs)[pos[<<i, j>>]] = seqs[i][j]
  /\ \A p \in 1..Len(FlattenSeq(seqs)) :
       \E i \in 1..Len(seqs) : \E j \in 1..Len(seqs[i]) : p = pos[<<i, j>>]
  /\ \A i, k \in 1..Len(seqs) : \A j \in 1..Len(seqs[i]) : \A l \in 1..Len(seqs[k]) :
       pos[<<i, j>>] < pos[<<k, l>>] => i < k \/ (i = k /\ j < l)

\* They have such places.
LEMMA LaidOut ==
  ASSUME NEW seqs, IsSeq(seqs), \A i \in DOMAIN seqs : IsSeq(seqs[i])
  PROVE  IsSeq(FlattenSeq(seqs)) /\ \E pos : Laid(pos, seqs)
<1> DEFINE n == Len(seqs)
<1>1. n \in Nat /\ \A i \in 1..n : IsSeq(seqs[i]) /\ Len(seqs[i]) \in Nat
  BY SeqShape
<1>2. PICK off : Ends(off, seqs)
  BY EndsExist
<1>3. /\ IsSeq(FlattenSeq(seqs)) /\ Len(FlattenSeq(seqs)) = off[n]
      /\ \A i \in 1..n : \A j \in 1..Len(seqs[i]) :
           FlattenSeq(seqs)[off[i - 1] + j] = seqs[i][j]
  BY <1>2, Flattened
<1>4. /\ \A i \in 0..n : off[i] \in Nat
      /\ \A i \in 1..n : off[i] = off[i - 1] + Len(seqs[i])
  BY <1>2 DEF Ends
<1>5. /\ \A i, j \in 0..n : i <= j => off[i] <= off[j]
      /\ \A p \in 1..off[n] : \E i \in 1..n : \E j \in 1..Len(seqs[i]) : p = off[i - 1] + j
  BY <1>2, EndsGrow
<1> HIDE DEF n
<1> DEFINE J == UNION {1..Len(seqs[i]) : i \in 1..n}
           pos == [x \in (1..n) \X J |-> off[x[1] - 1] + x[2]]
<1>6. \A i \in 1..n : \A j \in 1..Len(seqs[i]) : pos[<<i, j>>] = off[i - 1] + j
  OBVIOUS
<1> HIDE DEF pos, J
<1>7. ASSUME NEW i \in 1..n, NEW j \in 1..Len(seqs[i])
      PROVE  /\ pos[<<i, j>>] \in 1..Len(FlattenSeq(seqs))
             /\ FlattenSeq(seqs)[pos[<<i, j>>]] = seqs[i][j]
  <2>1. i - 1 \in 0..n /\ i \in 0..n /\ n \in 0..n /\ i <= n
    BY <1>1
  <2>2. PICK a, b, c \in Nat : a = off[i - 1] /\ b = off[n] /\ c = Len(seqs[i])
    BY <1>1, <1>4, <2>1
  <2>3. off[i] = a + c /\ off[i] <= b
    BY <1>4, <1>5, <2>1, <2>2
  <2>4. a + j \in 1..b
    BY <2>2, <2>3
  <2> QED
    BY <1>3, <1>6, <2>2, <2>4
<1>8. \A p \in 1..Len(FlattenSeq(seqs)) :
        \E i \in 1..n : \E j \in 1..Len(seqs[i]) : p = pos[<<i, j>>]
  <2> SUFFICES ASSUME NEW p \in 1..Len(FlattenSeq(seqs))
               PROVE  \E i \in 1..n : \E j \in 1..Len(seqs[i]) : p = pos[<<i, j>>]
    OBVIOUS
  <2>1. p \in 1..off[n]
    BY <1>3
  <2>2. PICK i \in 1..n : \E j \in 1..Len(seqs[i]) : p = off[i - 1] + j
    BY <1>5, <2>1
  <2>3. PICK j \in 1..Len(seqs[i]) : p = off[i - 1] + j
    BY <2>2
  <2>4. p = pos[<<i, j>>]
    BY <1>6, <2>3
  <2> QED
    BY <2>4
<1>9. ASSUME NEW i \in 1..n, NEW k \in 1..n,
             NEW j \in 1..Len(seqs[i]), NEW l \in 1..Len(seqs[k]), pos[<<i, j>>] < pos[<<k, l>>]
      PROVE  i < k \/ (i = k /\ j < l)
  <2>1. /\ i - 1 \in 0..n /\ i \in 0..n /\ k - 1 \in 0..n /\ k \in 0..n
        /\ (k < i => k <= i - 1)
    BY <1>1
  <2>2. PICK a, b, c, d \in Nat : /\ a = off[i - 1] /\ b = off[k - 1]
                                  /\ c = Len(seqs[i]) /\ d = Len(seqs[k])
    BY <1>1, <1>4, <2>1
  <2>3. a + j < b + l /\ j \in 1..c /\ l \in 1..d
    BY <1>6, <1>9, <2>2
  <2>4. CASE k < i
    <3>1. b + d <= a
      BY <1>4, <1>5, <2>1, <2>2, <2>4
    <3> QED
      BY <2>3, <3>1
  <2>5. CASE i = k
    BY <2>2, <2>3, <2>5
  <2>6. i < k \/ i = k \/ k < i
    BY <1>1
  <2> QED
    BY <2>4, <2>5, <2>6
<1>10. Laid(pos, seqs)
  BY <1>7, <1>8, <1>9 DEF Laid, n
<1> QED
  BY <1>3, <1>10

-----------------------------------------------------------------------------
(* The order of the entries of a report.                                   *)

\* What the values of a field need besides its layout.
IsValued(f) ==
  /\ {"lmin", "value", "variable", "usages", "count"} \subseteq DOMAIN f
  /\ f.lmin \in Int /\ 1 \in DOMAIN f.usages /\ 1..f.count \subseteq DOMAIN f.value
Valued == \A r \in DOMAIN reports : \A k \in DOMAIN reports[r].fields :
            IsValued(reports[r].fields[k])

\* The entries of a field, and one of them.
Places(f) == IF f.variable THEN f.count ELSE 1
EntryOf(r, rank, k, u) == [field |-> k, usage |-> u, priority |-> rank[<<r, k, u>>]]

\* The entries come as the fields do.
LEMMA EntriesAre ==
  ASSUME NEW r \in DOMAIN reports, IsReport(reports[r]), NEW rank
  PROVE  LET E == Entries(r, rank)
             F == reports[r].fields
         IN /\ IsSeq(E)
            /\ \A m \in 1..Len(E) : \E k \in DOMAIN F : \E u \in 1..Places(F[k]) :
                 E[m] = EntryOf(r, rank, k, u)
            /\ \A k \in DOMAIN F : \A u \in 1..Places(F[k]) : \E m \in 1..Len(E) :
                 E[m] = EntryOf(r, rank, k, u)
            /\ \A l, m \in 1..Len(E) : l < m => Earlier(E[l], E[m])
<1> DEFINE F == reports[r].fields
           E == Entries(r, rank)
           Field(k) == [u \in 1..Places(F[k]) |-> EntryOf(r, rank, k, u)]
           P == [k \in DOMAIN F |-> Field(k)]
<1>1. E = FlattenSeq(P)
  BY DEF Entries, Places, EntryOf
<1>2. /\ IsSeq(F) /\ Len(F) \in Nat /\ DOMAIN F = 1..Len(F)
      /\ \A k \in DOMAIN F : Places(F[k]) \in Nat
  BY SeqShape DEF IsReport, IsField, Places
<1>3. \A k \in DOMAIN F : /\ P[k] = Field(k) /\ IsSeq(Field(k)) /\ Len(Field(k)) = Places(F[k])
                          /\ \A u \in 1..Places(F[k]) : Field(k)[u] = EntryOf(r, rank, k, u)
  <2> SUFFICES ASSUME NEW k \in DOMAIN F
               PROVE  /\ P[k] = Field(k) /\ IsSeq(Field(k)) /\ Len(Field(k)) = Places(F[k])
                      /\ \A u \in 1..Places(F[k]) : Field(k)[u] = EntryOf(r, rank, k, u)
    OBVIOUS
  <2>1. Field(k) = [u \in 1..Places(F[k]) |-> Field(k)[u]]
    OBVIOUS
  <2>2. \A u \in 1..Places(F[k]) : Field(k)[u] = EntryOf(r, rank, k, u)
    OBVIOUS
  <2>3. P[k] = Field(k)
    OBVIOUS
  <2> HIDE DEF Field, P, F
  <2> QED
    BY <1>2, <2>1, <2>2, <2>3, SeqMade
<1>4. IsSeq(P) /\ Len(P) = Len(F)
  <2>1. P = [k \in 1..Len(F) |-> P[k]]
    BY <1>2
  <2> HIDE DEF P
  <2> QED
    BY <1>2, <2>1, SeqMade
<1> HIDE DEF P, Field
<1>5. /\ \A i \in DOMAIN P : IsSeq(P[i])
      /\ \A i \in 1..Len(P) : i \in DOMAIN F /\ Len(P[i]) = Places(F[i])
  BY <1>2, <1>3, <1>4, SeqShape
<1>6. IsSeq(E) /\ \E pos : Laid(pos, P)
  BY <1>1, <1>4, <1>5, LaidOut
<1>7. PICK pos : Laid(pos, P)
  BY <1>6
<1>8. /\ \A i \in DOMAIN F : \A j \in 1..Places(F[i]) :
           pos[<<i, j>>] \in 1..Len(E) /\ E[pos[<<i, j>>]] = EntryOf(r, rank, i, j)
      /\ \A p \in 1..Len(E) : \E i \in DOMAIN F : \E j \in 1..Places(F[i]) : p = pos[<<i, j>>]
      /\ \A i, k \in DOMAIN F : \A j \in 1..Places(F[i]) : \A l \in 1..Places(F[k]) :
           pos[<<i, j>>] < pos[<<k, l>>] => i < k \/ (i = k /\ j < l)
  <2> HIDE DEF F, E
  <2>1. 1..Len(P) = DOMAIN F
    BY <1>2, <1>4
  <2>2. \A i \in DOMAIN F : /\ 1..Len(P[i]) = 1..Places(F[i])
                            /\ \A j \in 1..Places(F[i]) : P[i][j] = EntryOf(r, rank, i, j)
    BY <1>3, <1>5, <2>1
  <2>3. \A i \in DOMAIN F : \A j \in 1..Places(F[i]) :
          pos[<<i, j>>] \in 1..Len(E) /\ E[pos[<<i, j>>]] = P[i][j]
    BY <1>1, <1>7, <2>1, <2>2 DEF Laid
  <2>4. \A p \in 1..Len(E) : \E i \in DOMAIN F : \E j \in 1..Places(F[i]) : p = pos[<<i, j>>]
    <3> SUFFICES ASSUME NEW p \in 1..Len(E)
                 PROVE  \E i \in DOMAIN F : \E j \in 1..Places(F[i]) : p = pos[<<i, j>>]
      OBVIOUS
    <3>1. PICK i \in 1..Len(P) : \E j \in 1..Len(P[i]) : p = pos[<<i, j>>]
      BY <1>1, <1>7 DEF Laid
    <3>2. i \in DOMAIN F /\ 1..Len(P[i]) = 1..Places(F[i])
      BY <2>1, <2>2
    <3> QED
      BY <3>1, <3>2
  <2>5. ASSUME NEW i \in DOMAIN F, NEW k \in DOMAIN F,
               NEW j \in 1..Places(F[i]), NEW l \in 1..Places(F[k]), pos[<<i, j>>] < pos[<<k, l>>]
        PROVE  i < k \/ (i = k /\ j < l)
    <3>1. i \in 1..Len(P) /\ k \in 1..Len(P) /\ j \in 1..Len(P[i]) /\ l \in 1..Len(P[k])
      BY <2>1, <2>2
    <3> QED
      BY <1>7, <2>5, <3>1 DEF Laid
  <2> QED
    BY <2>2, <2>3, <2>4, <2>5
<1> HIDE DEF E, F
<1>9. ASSUME NEW l \in 1..Len(E), NEW m \in 1..Len(E), l < m
      PROVE  Earlier(E[l], E[m])
  <2>1. PICK i \in DOMAIN F : \E j \in 1..Places(F[i]) : l = pos[<<i, j>>]
    BY <1>8
  <2>2. PICK j \in 1..Places(F[i]) : l = pos[<<i, j>>]
    BY <2>1
  <2>3. PICK k \in DOMAIN F : \E u \in 1..Places(F[k]) : m = pos[<<k, u>>]
    BY <1>8
  <2>4. PICK u \in 1..Places(F[k]) : m = pos[<<k, u>>]
    BY <2>3
  <2>5. i < k \/ (i = k /\ j < u)
    BY <1>8, <1>9, <2>2, <2>4
  <2>6. E[l] = EntryOf(r, rank, i, j) /\ E[m] = EntryOf(r, rank, k, u)
    BY <1>8, <2>2, <2>4
  <2> QED
    BY <2>5, <2>6 DEF Earlier, EntryOf
<1>10. \A m \in 1..Len(E) : \E k \in DOMAIN F : \E u \in 1..Places(F[k]) :
         E[m] = EntryOf(r, rank, k, u)
  <2> SUFFICES ASSUME NEW m \in 1..Len(E)
               PROVE  \E k \in DOMAIN F : \E u \in 1..Places(F[k]) : E[m] = EntryOf(r, rank, k, u)
    OBVIOUS
  <2>1. PICK k \in DOMAIN F : \E u \in 1..Places(F[k]) : m = pos[<<k, u>>]
    BY <1>8
  <2>2. PICK u \in 1..Places(F[k]) : m = pos[<<k, u>>]
    BY <2>1
  <2>3. E[m] = EntryOf(r, rank, k, u)
    BY <1>8, <2>2
  <2> QED
    BY <2>3
<1>11. \A k \in DOMAIN F : \A u \in 1..Places(F[k]) : \E m \in 1..Len(E) :
         E[m] = EntryOf(r, rank, k, u)
  BY <1>8
<1> QED
  BY <1>6, <1>9, <1>10, <1>11 DEF E, F

\* The list of a report has an entry for each variable and each array, once, and in
\* the order of their priorities and, among equals, of the descriptor.
Listed(s, F) ==
  /\ IsSeq(s)
  /\ \A p \in 1..Len(s) : s[p].field \in DOMAIN F /\ s[p].usage \in 1..Places(F[s[p].field])
                          /\ s[p].priority \in Int
  /\ \A k \in DOMAIN F : \A u \in 1..Places(F[k]) : \E p \in 1..Len(s) :
       s[p].field = k /\ s[p].usage = u
  /\ \A p, q \in 1..Len(s) : s[p].field = s[q].field /\ s[p].usage = s[q].usage => p = q
  /\ \A p, q \in 1..Len(s) : p < q => Above(s[p], s[q])

\* The list that hid_report_process_ordering makes is such a one.
LEMMA OrderingListed ==
  ASSUME ReportsSound, Valued, NEW r \in Inputs, NEW rank \in [Ranked -> Priorities]
  PROVE  Listed(Ordering(r, rank), reports[r].fields)
<1> DEFINE F == reports[r].fields
           E == Entries(r, rank)
           s == Ordering(r, rank)
<1>1. r \in DOMAIN reports /\ IsReport(reports[r]) /\ UsagesFit(reports[r])
  BY DEF Inputs, ReportsSound
<1>2. /\ IsSeq(E)
      /\ \A m \in 1..Len(E) : \E k \in DOMAIN F : \E u \in 1..Places(F[k]) :
           E[m] = EntryOf(r, rank, k, u)
      /\ \A k \in DOMAIN F : \A u \in 1..Places(F[k]) : \E m \in 1..Len(E) :
           E[m] = EntryOf(r, rank, k, u)
      /\ \A l, m \in 1..Len(E) : l < m => Earlier(E[l], E[m])
  BY <1>1, EntriesAre
<1>3. ASSUME NEW k \in DOMAIN F, NEW u \in 1..Places(F[k])
      PROVE  rank[<<r, k, u>>] \in Int /\ k \in Nat /\ u \in Nat
  <2>1. IsValued(F[k]) /\ IsField(F[k]) /\ 1..F[k].count \subseteq DOMAIN F[k].usages
    BY <1>1 DEF Valued, IsReport, UsagesFit
  <2>2. u \in DOMAIN F[k].usages
    <3>1. CASE F[k].variable
      BY <2>1, <3>1 DEF Places
    <3>2. CASE ~F[k].variable
      <4>1. u = 1
        BY <3>2 DEF Places
      <4> QED
        BY <2>1, <4>1 DEF IsValued
    <3> QED
      BY <3>1, <3>2
  <2>3. <<r, k, u>> \in Ranked
    BY <2>2 DEF Ranked
  <2>4. rank[<<r, k, u>>] \in Priorities
    BY <2>3
  <2>5. DOMAIN F = 1..Len(F) /\ Len(F) \in Nat /\ Places(F[k]) \in Nat
    BY <1>1, <2>1, SeqShape DEF IsReport, IsField, Places
  <2>6. rank[<<r, k, u>>] \in Int
    BY <2>4, ReportAssumption
  <2>7. k \in 1..Len(F) /\ u \in 1..Places(F[k])
    BY <2>5
  <2> HIDE DEF F
  <2>8. k \in Nat /\ u \in Nat
    BY <2>5, <2>7
  <2> QED
    BY <2>6, <2>8
<1>4. s = FoldLeft(Insert, <<>>, E)
  BY DEF Ordering
<1> HIDE DEF F, E, s
<1>5. \A m \in 1..Len(E) : IsEntry(E[m])
  <2> SUFFICES ASSUME NEW m \in 1..Len(E) PROVE IsEntry(E[m])
    OBVIOUS
  <2>1. PICK k \in DOMAIN F : \E u \in 1..Places(F[k]) : E[m] = EntryOf(r, rank, k, u)
    BY <1>2
  <2>2. PICK u \in 1..Places(F[k]) : E[m] = EntryOf(r, rank, k, u)
    BY <2>1
  <2> QED
    BY <1>3, <2>2 DEF IsEntry, EntryOf
<1>6. Sorted(s, E, Len(E))
  BY <1>2, <1>4, <1>5, InsertionSorts
<1>7. IsSeq(s) /\ Len(s) = Len(E)
  BY <1>6 DEF Sorted
<1>8. ASSUME NEW p \in 1..Len(s)
      PROVE  \E k \in DOMAIN F : \E u \in 1..Places(F[k]) : s[p] = EntryOf(r, rank, k, u)
  <2>1. PICK m \in 1..Len(E) : s[p] = E[m]
    BY <1>6, <1>7 DEF Sorted
  <2> QED
    BY <1>2, <2>1
<1>9. \A p \in 1..Len(s) : s[p].field \in DOMAIN F /\ s[p].usage \in 1..Places(F[s[p].field])
                           /\ s[p].priority \in Int
  <2> SUFFICES ASSUME NEW p \in 1..Len(s)
               PROVE  s[p].field \in DOMAIN F /\ s[p].usage \in 1..Places(F[s[p].field])
                      /\ s[p].priority \in Int
    OBVIOUS
  <2>1. PICK k \in DOMAIN F : \E u \in 1..Places(F[k]) : s[p] = EntryOf(r, rank, k, u)
    BY <1>8
  <2>2. PICK u \in 1..Places(F[k]) : s[p] = EntryOf(r, rank, k, u)
    BY <2>1
  <2>3. s[p].field = k /\ s[p].usage = u /\ s[p].priority = rank[<<r, k, u>>]
    BY <2>2 DEF EntryOf
  <2> QED
    BY <1>3, <2>3
<1>10. ASSUME NEW k \in DOMAIN F, NEW u \in 1..Places(F[k])
       PROVE  \E p \in 1..Len(s) : s[p].field = k /\ s[p].usage = u
  <2>1. PICK m \in 1..Len(E) : E[m] = EntryOf(r, rank, k, u)
    BY <1>2
  <2>2. PICK p \in 1..Len(s) : s[p] = E[m]
    BY <1>6, <1>7 DEF Sorted
  <2> QED
    BY <2>1, <2>2 DEF EntryOf
<1>11. \A p, q \in 1..Len(s) : p < q => Above(s[p], s[q])
  BY <1>6, <1>7 DEF Sorted
<1>12. ASSUME NEW p \in 1..Len(s), NEW q \in 1..Len(s),
              s[p].field = s[q].field, s[p].usage = s[q].usage
       PROVE  p = q
  <2>1. \A t \in 1..Len(s) : s[t] = EntryOf(r, rank, s[t].field, s[t].usage)
    <3> SUFFICES ASSUME NEW t \in 1..Len(s)
                 PROVE  s[t] = EntryOf(r, rank, s[t].field, s[t].usage)
      OBVIOUS
    <3>1. PICK k \in DOMAIN F : \E u \in 1..Places(F[k]) : s[t] = EntryOf(r, rank, k, u)
      BY <1>8
    <3>2. PICK u \in 1..Places(F[k]) : s[t] = EntryOf(r, rank, k, u)
      BY <3>1
    <3>3. s[t].field = k /\ s[t].usage = u
      BY <3>2 DEF EntryOf
    <3> QED
      BY <3>2, <3>3
  <2>2. s[p] = s[q]
    BY <1>12, <2>1
  <2>3. ~Above(s[p], s[q]) /\ ~Above(s[q], s[p])
    <3>1. PICK m \in 1..Len(E) : s[p] = E[m]
      BY <1>6, <1>7 DEF Sorted
    <3>2. IsEntry(s[p])
      BY <1>5, <3>1
    <3> QED
      BY <2>2, <3>2 DEF Above, Earlier, IsEntry
  <2>4. p \in Int /\ q \in Int
    BY <1>7, SeqShape
  <2> QED
    BY <1>11, <2>3, <2>4
<1> QED
  BY <1>7, <1>9, <1>10, <1>11, <1>12 DEF Listed, F, s

-----------------------------------------------------------------------------
(* The events of a report.                                                 *)

\* A value of an array that is not in the new report, and one that was not in
\* the report before.
Gone(f, new, n) == Valid(f, f.value[n]) /\ f.value[n] \notin Range(new)
Came(f, new, n) == Valid(f, new[n]) /\ new[n] \notin Before(f)

\* A sequence of one.
LEMMA Single ==
  ASSUME NEW e
  PROVE  IsSeq(<<e>>) /\ Len(<<e>>) = 1 /\ <<e>>[1] = e
<1>1. <<e>> \in Seq({e})
  OBVIOUS
<1> QED
  BY <1>1, SeqNarrow

\* An array gives an event for every value that went away and for every one that
\* came, and no other.
LEMMA ArrayEventsAre ==
  ASSUME NEW k, NEW f, NEW new, f.count \in Nat
  PROVE  LET A == ArrayEvents(k, f, new)
         IN /\ IsSeq(A) /\ (Overrun(f, new) => Len(A) = 0)
            /\ \A p \in 1..Len(A) : \E n \in 1..f.count :
                 \/ Gone(f, new, n) /\ A[p] = Event(k, Index(f, f.value[n]), 0)
                 \/ Came(f, new, n) /\ A[p] = Event(k, Index(f, new[n]), 1)
            /\ ~Overrun(f, new) => \A n \in 1..f.count :
                 /\ Gone(f, new, n) =>
                      \E p \in 1..Len(A) : A[p] = Event(k, Index(f, f.value[n]), 0)
                 /\ Came(f, new, n) =>
                      \E p \in 1..Len(A) : A[p] = Event(k, Index(f, new[n]), 1)
<1> DEFINE A == ArrayEvents(k, f, new)
           Out(n) == Event(k, Index(f, f.value[n]), 0)
           In(n) == Event(k, Index(f, new[n]), 1)
           Left(n) == IF Gone(f, new, n) THEN <<Out(n)>> ELSE <<>>
           Right(n) == IF Came(f, new, n) THEN <<In(n)>> ELSE <<>>
           P == [n \in 1..f.count |-> Left(n) \o Right(n)]
<1>1. A = IF Overrun(f, new) THEN <<>> ELSE FlattenSeq(P)
  BY DEF ArrayEvents, Gone, Came
<1>2. ASSUME NEW n \in 1..f.count
      PROVE  /\ IsSeq(Left(n)) /\ Len(Left(n)) = (IF Gone(f, new, n) THEN 1 ELSE 0)
             /\ Gone(f, new, n) => Left(n)[1] = Out(n)
             /\ IsSeq(Right(n)) /\ Len(Right(n)) = (IF Came(f, new, n) THEN 1 ELSE 0)
             /\ Came(f, new, n) => Right(n)[1] = In(n)
  <2>1. Gone(f, new, n) => Left(n) = <<Out(n)>>
    OBVIOUS
  <2>2. ~Gone(f, new, n) => Left(n) = <<>>
    OBVIOUS
  <2>3. Came(f, new, n) => Right(n) = <<In(n)>>
    OBVIOUS
  <2>4. ~Came(f, new, n) => Right(n) = <<>>
    OBVIOUS
  <2> HIDE DEF Left, Right, Out, In
  <2> QED
    BY <2>1, <2>2, <2>3, <2>4, Single, EmptyIsSeq
<1>3. \A n \in 1..f.count : P[n] = Left(n) \o Right(n)
  OBVIOUS
<1>4. P = [n \in 1..f.count |-> P[n]]
  OBVIOUS
<1> HIDE DEF Left, Right, Out, In, P, A
<1>5. IsSeq(P) /\ Len(P) = f.count /\ DOMAIN P = 1..f.count
  BY <1>4, SeqMade, SeqShape
<1>6. ASSUME NEW n \in 1..f.count
      PROVE  /\ IsSeq(P[n])
             /\ \A j \in 1..Len(P[n]) : (Gone(f, new, n) /\ P[n][j] = Out(n))
                                          \/ (Came(f, new, n) /\ P[n][j] = In(n))
             /\ Gone(f, new, n) => \E j \in 1..Len(P[n]) : P[n][j] = Out(n)
             /\ Came(f, new, n) => \E j \in 1..Len(P[n]) : P[n][j] = In(n)
  <2> DEFINE a == Left(n)
             b == Right(n)
  <2>1. /\ IsSeq(a) /\ IsSeq(b) /\ P[n] = a \o b
        /\ Len(a) = (IF Gone(f, new, n) THEN 1 ELSE 0)
        /\ Len(b) = (IF Came(f, new, n) THEN 1 ELSE 0)
        /\ Gone(f, new, n) => a[1] = Out(n)
        /\ Came(f, new, n) => b[1] = In(n)
    BY <1>2, <1>3
  <2> HIDE DEF a, b
  <2>2. /\ IsSeq(P[n]) /\ Len(P[n]) = Len(a) + Len(b)
        /\ \A j \in 1..Len(a) + Len(b) : P[n][j] = IF j <= Len(a) THEN a[j] ELSE b[j - Len(a)]
    BY <2>1, Joined
  <2>3. CASE Gone(f, new, n) /\ Came(f, new, n)
    <3>1. Len(P[n]) = 2 /\ P[n][1] = a[1] /\ P[n][2] = b[1]
      BY <2>1, <2>2, <2>3
    <3>2. /\ P[n][1] = Out(n) /\ P[n][2] = In(n) /\ 1 \in 1..Len(P[n]) /\ 2 \in 1..Len(P[n])
          /\ \A j \in 1..Len(P[n]) : j = 1 \/ j = 2
      BY <2>1, <2>3, <3>1
    <3> QED
      BY <2>2, <2>3, <3>2
  <2>4. CASE Gone(f, new, n) /\ ~Came(f, new, n)
    <3>1. Len(P[n]) = 1 /\ P[n][1] = a[1]
      BY <2>1, <2>2, <2>4
    <3>2. P[n][1] = Out(n) /\ 1 \in 1..Len(P[n]) /\ \A j \in 1..Len(P[n]) : j = 1
      BY <2>1, <2>4, <3>1
    <3> QED
      BY <2>2, <2>4, <3>2
  <2>5. CASE ~Gone(f, new, n) /\ Came(f, new, n)
    <3>1. Len(P[n]) = 1 /\ P[n][1] = b[1]
      BY <2>1, <2>2, <2>5
    <3>2. P[n][1] = In(n) /\ 1 \in 1..Len(P[n]) /\ \A j \in 1..Len(P[n]) : j = 1
      BY <2>1, <2>5, <3>1
    <3> QED
      BY <2>2, <2>5, <3>2
  <2>6. CASE ~Gone(f, new, n) /\ ~Came(f, new, n)
    <3>1. Len(P[n]) = 0
      BY <2>1, <2>2, <2>6
    <3> QED
      BY <2>2, <2>6, <3>1
  <2> QED
    BY <2>3, <2>4, <2>5, <2>6
<1>7. CASE Overrun(f, new)
  <2>1. IsSeq(A) /\ Len(A) = 0
    BY <1>1, <1>7, EmptyIsSeq
  <2> QED
    BY <1>7, <2>1 DEF A
<1>8. CASE ~Overrun(f, new)
  <2>1. A = FlattenSeq(P)
    BY <1>1, <1>8
  <2>2. IsSeq(A) /\ \E pos : Laid(pos, P)
    BY <1>5, <1>6, <2>1, LaidOut
  <2>3. PICK pos : Laid(pos, P)
    BY <2>2
  <2>4. ASSUME NEW p \in 1..Len(A)
        PROVE  \E n \in 1..f.count : \/ Gone(f, new, n) /\ A[p] = Out(n)
                                     \/ Came(f, new, n) /\ A[p] = In(n)
    <3>1. PICK n \in 1..Len(P) : \E j \in 1..Len(P[n]) : p = pos[<<n, j>>]
      BY <2>1, <2>3 DEF Laid
    <3>2. PICK j \in 1..Len(P[n]) : p = pos[<<n, j>>]
      BY <3>1
    <3>3. n \in 1..f.count /\ A[p] = P[n][j]
      BY <1>5, <2>1, <2>3, <3>2 DEF Laid
    <3> QED
      BY <1>6, <3>3
  <2>5. ASSUME NEW n \in 1..f.count, NEW j \in 1..Len(P[n])
        PROVE  \E p \in 1..Len(A) : A[p] = P[n][j]
    <3>1. n \in 1..Len(P)
      BY <1>5
    <3>2. pos[<<n, j>>] \in 1..Len(A) /\ A[pos[<<n, j>>]] = P[n][j]
      BY <2>1, <2>3, <3>1 DEF Laid
    <3> QED
      BY <3>2
  <2>6. ASSUME NEW n \in 1..f.count
        PROVE  /\ Gone(f, new, n) => \E p \in 1..Len(A) : A[p] = Out(n)
               /\ Came(f, new, n) => \E p \in 1..Len(A) : A[p] = In(n)
    <3>1. /\ Gone(f, new, n) => \E j \in 1..Len(P[n]) : P[n][j] = Out(n)
          /\ Came(f, new, n) => \E j \in 1..Len(P[n]) : P[n][j] = In(n)
      BY <1>6
    <3>2. CASE Gone(f, new, n)
      <4>1. PICK j \in 1..Len(P[n]) : P[n][j] = Out(n)
        BY <3>1, <3>2
      <4>2. \E p \in 1..Len(A) : A[p] = Out(n)
        BY <2>5, <4>1
      <4>3. CASE Came(f, new, n)
        <5>1. PICK i \in 1..Len(P[n]) : P[n][i] = In(n)
          BY <3>1, <4>3
        <5> QED
          BY <2>5, <4>2, <5>1
      <4> QED
        BY <4>2, <4>3
    <3>3. CASE ~Gone(f, new, n)
      <4>1. CASE Came(f, new, n)
        <5>1. PICK i \in 1..Len(P[n]) : P[n][i] = In(n)
          BY <3>1, <4>1
        <5> QED
          BY <2>5, <3>3, <5>1
      <4> QED
        BY <3>3, <4>1
    <3> QED
      BY <3>2, <3>3
  <2> QED
    BY <1>8, <2>2, <2>4, <2>6 DEF A, Out, In
<1> QED
  BY <1>7, <1>8

\* The events of an array, of an entry of the list and of a field.
ArrayOf(r, data, k) ==
  ArrayEvents(k, reports[r].fields[k], Fetch(reports[r].fields[k], data))
EntryEvents(r, data, e) ==
  IF reports[r].fields[e.field].variable
  THEN <<Event(e.field, e.usage, Fetch(reports[r].fields[e.field], data)[e.usage])>>
  ELSE ArrayOf(r, data, e.field)
FieldEvents(r, data, k) ==
  IF reports[r].fields[k].variable
  THEN VariableEvents(k, Fetch(reports[r].fields[k], data)) ELSE ArrayOf(r, data, k)
Pieces(r, data) ==
  IF order[r] # <<>> THEN [i \in DOMAIN order[r] |-> EntryEvents(r, data, order[r][i])]
  ELSE [k \in DOMAIN reports[r].fields |-> FieldEvents(r, data, k)]

\* A report's events are theirs, one after another.
LEMMA EventsArePieces ==
  ASSUME NEW r, NEW data
  PROVE  EventsOf(r, data) = FlattenSeq(Pieces(r, data))
BY DEF EventsOf, Pieces, EntryEvents, FieldEvents, ArrayOf

\* Where a piece and a place in it are about: its field, and what comes before and
\* after it in the list.
EventIs(r, data, e) ==
  LET f == reports[r].fields[e.field]
  IN /\ e.field \in DOMAIN reports[r].fields
     /\ f.variable => /\ e.usage \in 1..f.count
                      /\ e = Event(e.field, e.usage, Fetch(f, data)[e.usage])
     /\ ~f.variable => \E p \in 1..Len(ArrayOf(r, data, e.field)) :
                         e = ArrayOf(r, data, e.field)[p]
Ordered(r) == order[r] = <<>> \/ Listed(order[r], reports[r].fields)
\* The place in the list, or the field without one, that an event comes from.
From(r, i, e) ==
  IF order[r] # <<>>
  THEN /\ i \in 1..Len(order[r]) /\ order[r][i].field = e.field
       /\ reports[r].fields[e.field].variable => order[r][i].usage = e.usage
  ELSE i = e.field
PiecesAre(r, data, P) ==
  /\ IsSeq(P) /\ \A i \in DOMAIN P : IsSeq(P[i])
  /\ \A i \in 1..Len(P) : \A j \in 1..Len(P[i]) :
       EventIs(r, data, P[i][j]) /\ From(r, i, P[i][j])
  /\ \A i \in 1..Len(P) : \A j, l \in 1..Len(P[i]) :
       reports[r].fields[P[i][j].field].variable /\ P[i][j].usage = P[i][l].usage => j = l
  /\ \A k \in DOMAIN reports[r].fields :
       IF reports[r].fields[k].variable
       THEN \A u \in 1..reports[r].fields[k].count :
              \E i \in 1..Len(P) : \E j \in 1..Len(P[i]) :
                P[i][j].field = k /\ P[i][j].usage = u
       ELSE \A p \in 1..Len(ArrayOf(r, data, k)) :
              \E i \in 1..Len(P) : \E j \in 1..Len(P[i]) : P[i][j] = ArrayOf(r, data, k)[p]

\* An event of an array names its field.
LEMMA ArrayNamesField ==
  ASSUME NEW r \in DOMAIN reports, IsReport(reports[r]), NEW data,
         NEW k \in DOMAIN reports[r].fields
  PROVE  /\ IsSeq(ArrayOf(r, data, k))
         /\ \A p \in 1..Len(ArrayOf(r, data, k)) : ArrayOf(r, data, k)[p].field = k
<1> DEFINE f == reports[r].fields[k]
           new == Fetch(f, data)
           A == ArrayEvents(k, f, new)
<1>1. f.count \in Nat
  BY DEF IsReport, IsField
<1>2. ArrayOf(r, data, k) = A
  BY DEF ArrayOf
<1> HIDE DEF f, new
<1>3. IsSeq(A) /\ \A p \in 1..Len(A) : \E n \in 1..f.count :
                    \/ Gone(f, new, n) /\ A[p] = Event(k, Index(f, f.value[n]), 0)
                    \/ Came(f, new, n) /\ A[p] = Event(k, Index(f, new[n]), 1)
  BY <1>1, ArrayEventsAre
<1>4. \A u, v : Event(k, u, v).field = k
  BY DEF Event
<1> HIDE DEF A
<1> QED
  BY <1>2, <1>3, <1>4

\* The pieces, by the list.
LEMMA PiecesOfList ==
  ASSUME NEW r \in DOMAIN reports, IsReport(reports[r]), NEW data,
         order[r] # <<>>, Listed(order[r], reports[r].fields)
  PROVE  PiecesAre(r, data, Pieces(r, data))
<1> DEFINE F == reports[r].fields
           s == order[r]
           P == Pieces(r, data)
<1>1. /\ IsSeq(s) /\ Len(s) \in Nat /\ DOMAIN s = 1..Len(s)
      /\ \A k \in DOMAIN F : F[k].count \in Nat
  BY SeqShape DEF Listed, IsReport, IsField
<1>2. P = [i \in 1..Len(s) |-> EntryEvents(r, data, s[i])]
  BY <1>1 DEF Pieces
<1>3. IsSeq(P) /\ Len(P) = Len(s) /\ DOMAIN P = 1..Len(s)
  <2>1. P = [i \in 1..Len(s) |-> P[i]]
    BY <1>2
  <2> HIDE DEF P, s
  <2> QED
    BY <1>1, <2>1, SeqMade, SeqShape
<1>4. \A i \in 1..Len(s) : P[i] = EntryEvents(r, data, s[i])
  BY <1>2
<1> HIDE DEF P
<1>5. ASSUME NEW i \in 1..Len(s)
      PROVE  LET k == s[i].field IN
             /\ k \in DOMAIN F
             /\ F[k].variable =>
                  /\ s[i].usage \in 1..F[k].count
                  /\ P[i] = <<Event(k, s[i].usage, Fetch(F[k], data)[s[i].usage])>>
             /\ ~F[k].variable => P[i] = ArrayOf(r, data, k)
  BY <1>4, <1>5 DEF Listed, Places, EntryEvents
<1>6. ASSUME NEW i \in 1..Len(s)
      PROVE  /\ IsSeq(P[i])
             /\ \A j \in 1..Len(P[i]) : EventIs(r, data, P[i][j]) /\ From(r, i, P[i][j])
             /\ \A j, l \in 1..Len(P[i]) : F[P[i][j].field].variable => j = l
  <2> DEFINE k == s[i].field
             e == Event(k, s[i].usage, Fetch(F[k], data)[s[i].usage])
  <2>1. k \in DOMAIN F
    BY <1>5
  <2>2. CASE F[k].variable
    <3>1. P[i] = <<e>> /\ s[i].usage \in 1..F[k].count
      BY <1>5, <2>2
    <3>2. IsSeq(P[i]) /\ Len(P[i]) = 1 /\ P[i][1] = e
      BY <3>1, Single
    <3>3. e.field = k /\ e.usage = s[i].usage /\ e = Event(e.field, e.usage, Fetch(F[k], data)[e.usage])
      BY DEF Event
    <3>4. EventIs(r, data, e) /\ From(r, i, e)
      BY <1>1, <2>1, <2>2, <3>1, <3>3 DEF EventIs, From
    <3> HIDE DEF e, k
    <3> QED
      BY <3>2, <3>4
  <2>3. CASE ~F[k].variable
    <3>1. P[i] = ArrayOf(r, data, k)
      BY <1>5, <2>3
    <3>2. IsSeq(P[i]) /\ \A j \in 1..Len(P[i]) : P[i][j].field = k
      BY <2>1, <3>1, ArrayNamesField
    <3> HIDE DEF e
    <3>3. \A j \in 1..Len(P[i]) : EventIs(r, data, P[i][j]) /\ From(r, i, P[i][j])
      BY <1>1, <2>1, <2>3, <3>1, <3>2 DEF EventIs, From
    <3> QED
      BY <2>3, <3>2, <3>3
  <2> QED
    BY <2>2, <2>3
<1>7. ASSUME NEW k \in DOMAIN F, F[k].variable, NEW u \in 1..F[k].count
      PROVE  \E i \in 1..Len(P) : \E j \in 1..Len(P[i]) :
               P[i][j].field = k /\ P[i][j].usage = u
  <2>1. PICK i \in 1..Len(s) : s[i].field = k /\ s[i].usage = u
    BY <1>7 DEF Listed, Places
  <2>2. P[i] = <<Event(k, u, Fetch(F[k], data)[u])>>
    BY <1>5, <1>7, <2>1
  <2>3. 1 \in 1..Len(P[i]) /\ P[i][1] = Event(k, u, Fetch(F[k], data)[u])
    BY <2>2, Single
  <2>4. i \in 1..Len(P)
    BY <1>3
  <2> QED
    BY <2>3, <2>4 DEF Event
<1>8. ASSUME NEW k \in DOMAIN F, ~F[k].variable, NEW p \in 1..Len(ArrayOf(r, data, k))
      PROVE  \E i \in 1..Len(P) : \E j \in 1..Len(P[i]) : P[i][j] = ArrayOf(r, data, k)[p]
  <2>1. PICK i \in 1..Len(s) : s[i].field = k
    <3>1. 1 \in 1..Places(F[k])
      BY <1>8 DEF Places
    <3> QED
      BY <3>1 DEF Listed
  <2>2. P[i] = ArrayOf(r, data, k) /\ i \in 1..Len(P)
    BY <1>3, <1>5, <1>8, <2>1
  <2> QED
    BY <2>2
<1>9. /\ IsSeq(P) /\ \A i \in DOMAIN P : IsSeq(P[i])
      /\ \A i \in 1..Len(P) : \A j \in 1..Len(P[i]) :
           EventIs(r, data, P[i][j]) /\ From(r, i, P[i][j])
      /\ \A i \in 1..Len(P) : \A j, l \in 1..Len(P[i]) :
           F[P[i][j].field].variable /\ P[i][j].usage = P[i][l].usage => j = l
  BY <1>3, <1>6
<1> QED
  BY <1>7, <1>8, <1>9 DEF PiecesAre, P

\* The pieces, field by field.
LEMMA PiecesOfFields ==
  ASSUME NEW r \in DOMAIN reports, IsReport(reports[r]), NEW data, order[r] = <<>>
  PROVE  PiecesAre(r, data, Pieces(r, data))
<1> DEFINE F == reports[r].fields
           P == Pieces(r, data)
<1>1. /\ IsSeq(F) /\ Len(F) \in Nat /\ DOMAIN F = 1..Len(F)
      /\ \A k \in DOMAIN F : F[k].count \in Nat
  BY SeqShape DEF IsReport, IsField
<1>2. P = [k \in DOMAIN F |-> FieldEvents(r, data, k)]
  BY DEF Pieces
<1>3. IsSeq(P) /\ Len(P) = Len(F) /\ DOMAIN P = DOMAIN F
  <2>1. P = [k \in 1..Len(F) |-> P[k]]
    BY <1>1, <1>2
  <2> HIDE DEF P, F
  <2> QED
    BY <1>1, <2>1, SeqMade, SeqShape
<1>4. \A k \in DOMAIN F : P[k] = FieldEvents(r, data, k)
  BY <1>2
<1> HIDE DEF P
<1>5. ASSUME NEW k \in DOMAIN F
      PROVE  /\ F[k].variable =>
                  /\ IsSeq(P[k]) /\ Len(P[k]) = F[k].count
                  /\ \A u \in 1..F[k].count : P[k][u] = Event(k, u, Fetch(F[k], data)[u])
             /\ ~F[k].variable => P[k] = ArrayOf(r, data, k)
  <2>1. CASE F[k].variable
    <3> DEFINE q == VariableEvents(k, Fetch(F[k], data))
    <3>1. q = [u \in 1..F[k].count |-> Event(k, u, Fetch(F[k], data)[u])]
      BY DEF VariableEvents, Fetch
    <3>2. q = [u \in 1..F[k].count |-> q[u]]
      BY <3>1
    <3>3. \A u \in 1..F[k].count : q[u] = Event(k, u, Fetch(F[k], data)[u])
      BY <3>1
    <3>4. P[k] = q
      BY <1>4, <2>1 DEF FieldEvents
    <3> HIDE DEF q
    <3>5. IsSeq(q) /\ Len(q) = F[k].count
      BY <1>1, <3>2, SeqMade
    <3> QED
      BY <2>1, <3>3, <3>4, <3>5
  <2>2. CASE ~F[k].variable
    BY <1>4, <2>2 DEF FieldEvents
  <2> QED
    BY <2>1, <2>2
<1>6. ASSUME NEW k \in DOMAIN F
      PROVE  /\ IsSeq(P[k])
             /\ \A j \in 1..Len(P[k]) : EventIs(r, data, P[k][j]) /\ From(r, k, P[k][j])
             /\ \A j, l \in 1..Len(P[k]) :
                  F[P[k][j].field].variable /\ P[k][j].usage = P[k][l].usage => j = l
  <2>1. CASE F[k].variable
    <3>1. \A u \in 1..F[k].count : /\ P[k][u].field = k /\ P[k][u].usage = u
                                   /\ P[k][u] = Event(k, u, Fetch(F[k], data)[u])
      BY <1>5, <2>1 DEF Event
    <3>2. IsSeq(P[k]) /\ Len(P[k]) = F[k].count
      BY <1>5, <2>1
    <3>3. \A j \in 1..Len(P[k]) : EventIs(r, data, P[k][j]) /\ From(r, k, P[k][j])
      BY <2>1, <3>1, <3>2 DEF EventIs, From
    <3> QED
      BY <3>1, <3>2, <3>3
  <2>2. CASE ~F[k].variable
    <3>1. P[k] = ArrayOf(r, data, k)
      BY <1>5, <2>2
    <3>2. IsSeq(P[k]) /\ \A j \in 1..Len(P[k]) : P[k][j].field = k
      BY <3>1, ArrayNamesField
    <3>3. \A j \in 1..Len(P[k]) : EventIs(r, data, P[k][j]) /\ From(r, k, P[k][j])
      BY <2>2, <3>1, <3>2 DEF EventIs, From
    <3> QED
      BY <2>2, <3>2, <3>3
  <2> QED
    BY <2>1, <2>2
<1>7. 1..Len(P) = DOMAIN F
  BY <1>1, <1>3
<1>8. ASSUME NEW k \in DOMAIN F, F[k].variable, NEW u \in 1..F[k].count
      PROVE  \E i \in 1..Len(P) : \E j \in 1..Len(P[i]) :
               P[i][j].field = k /\ P[i][j].usage = u
  <2>1. Len(P[k]) = F[k].count /\ P[k][u] = Event(k, u, Fetch(F[k], data)[u])
    BY <1>5, <1>8
  <2> HIDE DEF F
  <2>2. u \in 1..Len(P[k]) /\ P[k][u].field = k /\ P[k][u].usage = u
    BY <2>1 DEF Event
  <2> QED
    BY <1>7, <2>2
<1>9. ASSUME NEW k \in DOMAIN F, ~F[k].variable, NEW p \in 1..Len(ArrayOf(r, data, k))
      PROVE  \E i \in 1..Len(P) : \E j \in 1..Len(P[i]) : P[i][j] = ArrayOf(r, data, k)[p]
  BY <1>5, <1>7, <1>9
<1>10. /\ IsSeq(P) /\ \A i \in DOMAIN P : IsSeq(P[i])
       /\ \A i \in 1..Len(P) : \A j \in 1..Len(P[i]) :
            EventIs(r, data, P[i][j]) /\ From(r, i, P[i][j])
       /\ \A i \in 1..Len(P) : \A j, l \in 1..Len(P[i]) :
            F[P[i][j].field].variable /\ P[i][j].usage = P[i][l].usage => j = l
  BY <1>3, <1>6, <1>7
<1> QED
  BY <1>8, <1>9, <1>10 DEF PiecesAre, P

\* A variable comes from one place only.
LEMMA FromOne ==
  ASSUME NEW r, Ordered(r), NEW i, NEW j, NEW d, NEW e, From(r, i, d), From(r, j, e),
         d.field = e.field, d.usage = e.usage, reports[r].fields[d.field].variable
  PROVE  i = j
BY DEF Ordered, Listed, From

\* The events of a report: each variable gives one, each array its own, and they come
\* in the order of the list.
LEMMA EventsAre ==
  ASSUME NEW r \in DOMAIN reports, IsReport(reports[r]), NEW data, Ordered(r)
  PROVE  LET ev == EventsOf(r, data)
             F == reports[r].fields
         IN /\ IsSeq(ev)
            /\ \A h \in 1..Len(ev) : EventIs(r, data, ev[h])
            /\ \A k \in DOMAIN F :
                 IF F[k].variable
                 THEN \A u \in 1..F[k].count : \E h \in 1..Len(ev) :
                        ev[h].field = k /\ ev[h].usage = u
                 ELSE \A p \in 1..Len(ArrayOf(r, data, k)) :
                        \E h \in 1..Len(ev) : ev[h] = ArrayOf(r, data, k)[p]
            /\ \A g, h \in 1..Len(ev) :
                 ev[g].field = ev[h].field /\ ev[g].usage = ev[h].usage
                   /\ F[ev[g].field].variable => g = h
            /\ \A g, h \in 1..Len(ev) : g < h =>
                 \E i, j \in Nat : i <= j /\ From(r, i, ev[g]) /\ From(r, j, ev[h])
<1> DEFINE P == Pieces(r, data)
           ev == EventsOf(r, data)
           F == reports[r].fields
<1>1. PiecesAre(r, data, P)
  BY PiecesOfList, PiecesOfFields DEF Ordered
<1>2. ev = FlattenSeq(P)
  BY EventsArePieces
<1> HIDE DEF P, ev
<1>3. IsSeq(P) /\ \A i \in DOMAIN P : IsSeq(P[i])
  BY <1>1 DEF PiecesAre
<1>4. IsSeq(ev) /\ \E pos : Laid(pos, P)
  BY <1>2, <1>3, LaidOut
<1>5. PICK pos : Laid(pos, P)
  BY <1>4
<1>6. ASSUME NEW h \in 1..Len(ev)
      PROVE  \E i \in 1..Len(P) : \E j \in 1..Len(P[i]) :
               h = pos[<<i, j>>] /\ ev[h] = P[i][j]
  <2>1. PICK i \in 1..Len(P) : \E j \in 1..Len(P[i]) : h = pos[<<i, j>>]
    BY <1>2, <1>5 DEF Laid
  <2>2. PICK j \in 1..Len(P[i]) : h = pos[<<i, j>>]
    BY <2>1
  <2>3. ev[h] = P[i][j]
    BY <1>2, <1>5, <2>2 DEF Laid
  <2> QED
    BY <2>2, <2>3
<1>7. ASSUME NEW i \in 1..Len(P), NEW j \in 1..Len(P[i])
      PROVE  \E h \in 1..Len(ev) : ev[h] = P[i][j]
  <2>1. pos[<<i, j>>] \in 1..Len(ev) /\ ev[pos[<<i, j>>]] = P[i][j]
    BY <1>2, <1>5 DEF Laid
  <2> QED
    BY <2>1
<1>8. ASSUME NEW h \in 1..Len(ev) PROVE EventIs(r, data, ev[h])
  <2>1. PICK i \in 1..Len(P) : \E j \in 1..Len(P[i]) : h = pos[<<i, j>>] /\ ev[h] = P[i][j]
    BY <1>6
  <2> QED
    BY <1>1, <2>1 DEF PiecesAre
<1>9. ASSUME NEW k \in DOMAIN F, F[k].variable, NEW u \in 1..F[k].count
      PROVE  \E h \in 1..Len(ev) : ev[h].field = k /\ ev[h].usage = u
  <2>1. PICK i \in 1..Len(P) : \E j \in 1..Len(P[i]) : P[i][j].field = k /\ P[i][j].usage = u
    BY <1>1, <1>9 DEF PiecesAre
  <2>2. PICK j \in 1..Len(P[i]) : P[i][j].field = k /\ P[i][j].usage = u
    BY <2>1
  <2> QED
    BY <1>7, <2>2
<1>10. ASSUME NEW k \in DOMAIN F, ~F[k].variable, NEW p \in 1..Len(ArrayOf(r, data, k))
       PROVE  \E h \in 1..Len(ev) : ev[h] = ArrayOf(r, data, k)[p]
  <2>1. PICK i \in 1..Len(P) : \E j \in 1..Len(P[i]) : P[i][j] = ArrayOf(r, data, k)[p]
    BY <1>1, <1>10 DEF PiecesAre
  <2>2. PICK j \in 1..Len(P[i]) : P[i][j] = ArrayOf(r, data, k)[p]
    BY <2>1
  <2> QED
    BY <1>7, <2>2
<1>11. ASSUME NEW g \in 1..Len(ev), NEW h \in 1..Len(ev),
              ev[g].field = ev[h].field, ev[g].usage = ev[h].usage, F[ev[g].field].variable
       PROVE  g = h
  <2>1. PICK i \in 1..Len(P) : \E j \in 1..Len(P[i]) : g = pos[<<i, j>>] /\ ev[g] = P[i][j]
    BY <1>6
  <2>2. PICK j \in 1..Len(P[i]) : g = pos[<<i, j>>] /\ ev[g] = P[i][j]
    BY <2>1
  <2>3. PICK k \in 1..Len(P) : \E l \in 1..Len(P[k]) : h = pos[<<k, l>>] /\ ev[h] = P[k][l]
    BY <1>6
  <2>4. PICK l \in 1..Len(P[k]) : h = pos[<<k, l>>] /\ ev[h] = P[k][l]
    BY <2>3
  <2>5. From(r, i, ev[g]) /\ From(r, k, ev[h])
    BY <1>1, <2>2, <2>4 DEF PiecesAre
  <2>6. i = k
    BY <1>11, <2>5, FromOne
  <2>7. j = l
    BY <1>1, <1>11, <2>2, <2>4, <2>6 DEF PiecesAre
  <2> QED
    BY <2>2, <2>4, <2>6, <2>7
<1>12. ASSUME NEW g \in 1..Len(ev), NEW h \in 1..Len(ev), g < h
       PROVE  \E i, j \in Nat : i <= j /\ From(r, i, ev[g]) /\ From(r, j, ev[h])
  <2>1. PICK i \in 1..Len(P) : \E j \in 1..Len(P[i]) : g = pos[<<i, j>>] /\ ev[g] = P[i][j]
    BY <1>6
  <2>2. PICK j \in 1..Len(P[i]) : g = pos[<<i, j>>] /\ ev[g] = P[i][j]
    BY <2>1
  <2>3. PICK k \in 1..Len(P) : \E l \in 1..Len(P[k]) : h = pos[<<k, l>>] /\ ev[h] = P[k][l]
    BY <1>6
  <2>4. PICK l \in 1..Len(P[k]) : h = pos[<<k, l>>] /\ ev[h] = P[k][l]
    BY <2>3
  <2>5. From(r, i, ev[g]) /\ From(r, k, ev[h])
    BY <1>1, <2>2, <2>4 DEF PiecesAre
  <2>6. i < k \/ i = k
    BY <1>5, <1>12, <2>2, <2>4 DEF Laid
  <2>7. i \in Nat /\ k \in Nat /\ i <= k
    BY <1>3, <2>6, SeqShape
  <2> QED
    BY <2>5, <2>7
<1> QED
  BY <1>4, <1>8, <1>9, <1>10, <1>11, <1>12 DEF ev

-----------------------------------------------------------------------------
(* Keys that are down.                                                     *)

\* What the last event about a key says is what is held, if all say the same.
LEMMA HeardIs ==
  ASSUME NEW r, NEW ev, IsSeq(ev), NEW key
  PROVE  LET H == HeardAll(r, ev)
             On(h) == key \in Pressed(r, ev[h])
         IN /\ (\A h \in 1..Len(ev) : ~On(h)) => (key \in H <=> key \in held)
            /\ ((\E h \in 1..Len(ev) : On(h))
                  /\ \A h \in 1..Len(ev) : On(h) => ev[h].value = 0) => key \notin H
            /\ ((\E h \in 1..Len(ev) : On(h))
                  /\ \A h \in 1..Len(ev) : On(h) => ev[h].value # 0) => key \in H
<1> DEFINE n == Len(ev)
           On(h) == key \in Pressed(r, ev[h])
<1>1. PICK x : /\ x[0] = held
               /\ \A k \in 1..n : x[k] = Heard(x[k - 1], r, ev[k])
               /\ HeardAll(r, ev) = x[n]
  BY HeardSteps
<1>2. \A k \in 1..n : /\ ~On(k) => (key \in x[k] <=> key \in x[k - 1])
                      /\ On(k) => (key \in x[k] <=> ev[k].value # 0)
  BY <1>1 DEF Heard
<1>3. n \in Nat
  BY SeqShape
<1> HIDE DEF n, On
<1> DEFINE Good(m) ==
             /\ (\A h \in 1..m : ~On(h)) => (key \in x[m] <=> key \in held)
             /\ ((\E h \in 1..m : On(h)) /\ \A h \in 1..m : On(h) => ev[h].value = 0)
                  => key \notin x[m]
             /\ ((\E h \in 1..m : On(h)) /\ \A h \in 1..m : On(h) => ev[h].value # 0)
                  => key \in x[m]
           Bad == {m \in 0..n : ~Good(m)}
<1>4. Bad = {}
  <2> SUFFICES ASSUME Bad # {} PROVE FALSE
    OBVIOUS
  <2>1. Bad \in SUBSET Nat /\ \A m \in Bad : m \in 0..n /\ ~Good(m)
    BY <1>3
  <2>2. PICK m \in Bad : \A k \in Bad : m <= k
    <3> HIDE DEF Bad
    <3> QED
      BY <2>1, LeastExists
  <2>3. m \in 0..n /\ ~Good(m)
    BY <2>1
  <2>4. CASE m = 0
    <3>1. \A h \in 1..0 : FALSE
      OBVIOUS
    <3>2. Good(0)
      BY <1>1, <3>1
    <3> QED
      BY <2>3, <2>4, <3>2
  <2>5. CASE m # 0
    <3>1. m \in 1..n /\ m - 1 \in 0..n /\ ~(m <= m - 1) /\ m \in Nat
      BY <1>3, <2>3, <2>5
    <3>2. Good(m - 1)
      BY <2>2, <3>1
    <3>3. \A h \in 1..m : h = m \/ h \in 1..m - 1
      BY <3>1
    <3>4. \A h \in 1..m - 1 : h \in 1..m
      BY <3>1
    <3>5. m \in 1..m
      BY <3>1
    <3>6. /\ ~On(m) => (key \in x[m] <=> key \in x[m - 1])
          /\ On(m) => (key \in x[m] <=> ev[m].value # 0)
      BY <1>2, <3>1
    <3> HIDE DEF Bad
    <3>7. (\A h \in 1..m : ~On(h)) => (key \in x[m] <=> key \in held)
      BY <3>2, <3>4, <3>5, <3>6
    <3>8. ((\E h \in 1..m : On(h)) /\ \A h \in 1..m : On(h) => ev[h].value = 0)
            => key \notin x[m]
      BY <3>2, <3>3, <3>4, <3>5, <3>6
    <3>9. ((\E h \in 1..m : On(h)) /\ \A h \in 1..m : On(h) => ev[h].value # 0)
            => key \in x[m]
      BY <3>2, <3>3, <3>4, <3>5, <3>6
    <3> QED
      BY <2>3, <3>7, <3>8, <3>9
  <2> QED
    BY <2>4, <2>5
<1>5. n \in 0..n
  BY <1>3
<1>6. Good(n)
  <2> HIDE DEF Good
  <2> QED
    BY <1>4, <1>5
<1> QED
  BY <1>1, <1>6 DEF n, On

\* A usage of an array that the values before name.
Down(f, u) == ~f.variable /\ \E v \in Before(f) : Valid(f, v) /\ u = Index(f, v)

\* They make the keys.
LEMMA KeyIn ==
  \A key : key \in AllKeys <=>
    \E r \in Inputs : \E k \in DOMAIN reports[r].fields : \E u :
      key = <<r, k, u>> /\ Down(reports[r].fields[k], u)
BY DEF AllKeys, Keys, Down

\* A usage of an array is down after a report if its event says so, and as it was
\* without one.
LEMMA ArrayAgrees ==
  ASSUME NEW k, NEW f, NEW data, IsValued(f), ~f.variable, f.count \in Nat, NEW u
  PROVE  LET g == Remembered(f, data)
             A == ArrayEvents(k, f, Fetch(f, data))
         IN /\ ~g.variable
            /\ (\A p \in 1..Len(A) : A[p].usage # u) => (Down(g, u) <=> Down(f, u))
            /\ \A p \in 1..Len(A) : A[p].usage = u =>
                 (A[p].value = 0 /\ ~Down(g, u)) \/ (A[p].value = 1 /\ Down(g, u))
<1> DEFINE new == Fetch(f, data)
           g == Remembered(f, data)
           A == ArrayEvents(k, f, new)
<1>1. DOMAIN new = 1..f.count
  BY DEF Fetch
<1>2. Range(new) = {new[n] : n \in 1..f.count}
  BY <1>1 DEF Range
<1>3. f.lmin \in Int /\ 1..f.count \subseteq DOMAIN f.value
      /\ {"lmin", "value", "variable", "usages", "count"} \subseteq DOMAIN f
  BY DEF IsValued
<1>4. CASE Overrun(f, new)
  <2>1. g = f
    BY <1>4 DEF Remembered
  <2>2. Len(A) = 0
    BY <1>4, ArrayEventsAre
  <2> HIDE DEF g, A
  <2>3. \A p \in 1..Len(A) : FALSE
    BY <2>2
  <2> QED
    BY <2>1, <2>3 DEF g, A
<1>5. CASE ~Overrun(f, new)
  <2>1. g = [f EXCEPT !.value = [n \in DOMAIN @ |-> IF n <= f.count THEN new[n] ELSE @[n]]]
    BY <1>5 DEF Remembered
  <2>2. /\ g.variable = f.variable /\ g.lmin = f.lmin /\ g.lmax = f.lmax /\ g.count = f.count
        /\ g.usages = f.usages
        /\ g.value = [n \in DOMAIN f.value |-> IF n <= f.count THEN new[n] ELSE f.value[n]]
    BY <1>3, <2>1
  <2> HIDE DEF g, new
  <2>3. \A n \in 1..f.count : g.value[n] = new[n]
    BY <1>3, <2>2
  <2>4. Before(g) = Range(new)
    BY <1>2, <2>2, <2>3 DEF Before
  <2>5. \A v : (Valid(g, v) <=> Valid(f, v)) /\ Index(g, v) = Index(f, v)
    BY <2>2 DEF Valid, Index
  <2>6. Down(g, u) <=> \E v \in Range(new) : Valid(f, v) /\ u = Index(f, v)
    BY <2>2, <2>4, <2>5 DEF Down
  <2>7. Down(f, u) <=> \E v \in Before(f) : Valid(f, v) /\ u = Index(f, v)
    BY DEF Down
  <2>8. \A v, w : Valid(f, v) /\ Valid(f, w) /\ Index(f, v) = Index(f, w) => v = w
    BY <1>3 DEF Valid, Index
  <2>9. /\ \A p \in 1..Len(A) : \E n \in 1..f.count :
             \/ Gone(f, new, n) /\ A[p] = Event(k, Index(f, f.value[n]), 0)
             \/ Came(f, new, n) /\ A[p] = Event(k, Index(f, new[n]), 1)
        /\ \A n \in 1..f.count :
             /\ Gone(f, new, n) => \E p \in 1..Len(A) : A[p] = Event(k, Index(f, f.value[n]), 0)
             /\ Came(f, new, n) => \E p \in 1..Len(A) : A[p] = Event(k, Index(f, new[n]), 1)
    BY <1>5, ArrayEventsAre
  <2>10. \A x, v : Event(k, x, v).usage = x /\ Event(k, x, v).value = v
    BY DEF Event
  <2> HIDE DEF A
  <2>11. ASSUME NEW p \in 1..Len(A), A[p].usage = u
         PROVE  (A[p].value = 0 /\ ~Down(g, u)) \/ (A[p].value = 1 /\ Down(g, u))
    <3>1. PICK n \in 1..f.count :
            \/ Gone(f, new, n) /\ A[p] = Event(k, Index(f, f.value[n]), 0)
            \/ Came(f, new, n) /\ A[p] = Event(k, Index(f, new[n]), 1)
      BY <2>9
    <3>2. CASE Gone(f, new, n) /\ A[p] = Event(k, Index(f, f.value[n]), 0)
      <4>1. A[p].value = 0 /\ u = Index(f, f.value[n])
        BY <2>10, <2>11, <3>2
      <4>2. ~Down(g, u)
        BY <2>6, <2>8, <3>2, <4>1 DEF Gone
      <4> QED
        BY <4>1, <4>2
    <3>3. CASE Came(f, new, n) /\ A[p] = Event(k, Index(f, new[n]), 1)
      <4>1. A[p].value = 1 /\ u = Index(f, new[n])
        BY <2>10, <2>11, <3>3
      <4>2. new[n] \in Range(new)
        BY <1>2
      <4>3. Down(g, u)
        BY <2>6, <3>3, <4>1, <4>2 DEF Came
      <4> QED
        BY <4>1, <4>3
    <3> QED
      BY <3>1, <3>2, <3>3
  <2>12. ASSUME \A p \in 1..Len(A) : A[p].usage # u
         PROVE  Down(g, u) <=> Down(f, u)
    <3>1. ASSUME Down(g, u), ~Down(f, u) PROVE FALSE
      <4>1. PICK v \in Range(new) : Valid(f, v) /\ u = Index(f, v)
        BY <2>6, <3>1
      <4>2. PICK n \in 1..f.count : v = new[n]
        BY <1>2
      <4>3. v \notin Before(f)
        BY <2>7, <3>1, <4>1
      <4>4. Came(f, new, n)
        BY <4>1, <4>2, <4>3 DEF Came
      <4> QED
        BY <2>9, <2>10, <2>12, <4>1, <4>2, <4>4
    <3>2. ASSUME Down(f, u), ~Down(g, u) PROVE FALSE
      <4>1. PICK v \in Before(f) : Valid(f, v) /\ u = Index(f, v)
        BY <2>7, <3>2
      <4>2. PICK n \in 1..f.count : v = f.value[n]
        BY DEF Before
      <4>3. v \notin Range(new)
        BY <2>6, <3>2, <4>1
      <4>4. Gone(f, new, n)
        BY <4>1, <4>2, <4>3 DEF Gone
      <4> QED
        BY <2>9, <2>10, <2>12, <4>1, <4>2, <4>4
    <3> QED
      BY <3>1, <3>2
  <2> QED
    BY <2>2, <2>11, <2>12 DEF g, A, new
<1> QED
  BY <1>4, <1>5

\* What a step hears are the events of its report.
LEMMA ProcessHears ==
  ASSUME NEW r, NEW data, Process(r, data)
  PROVE  /\ held' = HeardAll(r, EventsOf(r, data))
         /\ told' = [report |-> r, events |-> EventsOf(r, data)]
         /\ reports' = [reports EXCEPT ![r].fields =
                          [k \in DOMAIN @ |-> Remembered(@[k], data)]]
BY DEF Process, HeardAll

\* A report changes the values of its own fields.
LEMMA ProcessChanges ==
  ASSUME ReportsSound, NEW r \in DOMAIN reports, NEW data, Process(r, data)
  PROVE  /\ DOMAIN reports' = DOMAIN reports
         /\ \A i \in DOMAIN reports : /\ reports'[i].type = reports[i].type
                                      /\ i # r => reports'[i] = reports[i]
         /\ DOMAIN reports'[r].fields = DOMAIN reports[r].fields
         /\ \A k \in DOMAIN reports[r].fields :
              reports'[r].fields[k] = Remembered(reports[r].fields[k], data)
<1> DEFINE new == [reports[r] EXCEPT !.fields = [k \in DOMAIN @ |-> Remembered(@[k], data)]]
<1>1. IsReport(reports[r])
  BY DEF ReportsSound
<1>2. reports' = [reports EXCEPT ![r] = new]
  BY ProcessHears
<1>3. /\ new.type = reports[r].type
      /\ new.fields = [k \in DOMAIN reports[r].fields |->
                         Remembered(reports[r].fields[k], data)]
  BY <1>1 DEF IsReport
<1> HIDE DEF new
<1>4. /\ DOMAIN reports' = DOMAIN reports
      /\ \A i \in DOMAIN reports : reports'[i] = IF i = r THEN new ELSE reports[i]
  BY <1>2, Replaced DEF ReportsSound
<1> QED
  BY <1>3, <1>4

\* A field that keeps its kind, and one that remembers its values.
SameKind(f, g) == IsValued(g) /\ g.variable = f.variable /\ g.count = f.count

\* A field that remembers a report is of its kind.
LEMMA RememberedKind ==
  ASSUME NEW f, IsValued(f), NEW data
  PROVE  SameKind(f, Remembered(f, data))
<1> DEFINE g == Remembered(f, data)
<1>1. CASE Overrun(f, Fetch(f, data))
  BY <1>1 DEF Remembered, SameKind
<1>2. CASE ~Overrun(f, Fetch(f, data))
  <2>1. \E v : g = [f EXCEPT !.value = v] /\ DOMAIN v = DOMAIN f.value
    <3> DEFINE v == [n \in DOMAIN f.value |-> IF n <= f.count THEN Fetch(f, data)[n]
                                              ELSE f.value[n]]
    <3>1. g = [f EXCEPT !.value = v] /\ DOMAIN v = DOMAIN f.value
      BY <1>2 DEF Remembered
    <3> QED
      BY <3>1
  <2>2. PICK v : g = [f EXCEPT !.value = v] /\ DOMAIN v = DOMAIN f.value
    BY <2>1
  <2> HIDE DEF g
  <2> QED
    BY <2>2 DEF IsValued, SameKind, g
<1> QED
  BY <1>1, <1>2

-----------------------------------------------------------------------------
(* The keys that hidinput holds.                                           *)

\* A report that is processed keeps them what its arrays say.
LEMMA ProcessAgrees ==
  ASSUME ReportsSound, Valued, \A r \in DOMAIN reports : Ordered(r),
         phase = "ready", KeysAgree, UNCHANGED claimed,
         NEW r \in DOMAIN reports, NEW data, Process(r, data)
  PROVE  KeysAgree'
<1> SUFFICES ASSUME "input" \in claimed
             PROVE  {key \in held : key[1] \in Inputs}' = AllKeys'
  BY DEF KeysAgree
<1> DEFINE F == reports[r].fields
           ev == EventsOf(r, data)
           n == Len(ev)
           On(key, h) == key \in Pressed(r, ev[h])
<1>1. IsReport(reports[r]) /\ Ordered(r)
  BY DEF ReportsSound
<1>2. /\ held' = HeardAll(r, ev)
      /\ IsSeq(ev) /\ \A h \in 1..n : EventIs(r, data, ev[h])
      /\ \A k \in DOMAIN F : ~F[k].variable => \A p \in 1..Len(ArrayOf(r, data, k)) :
           \E h \in 1..n : ev[h] = ArrayOf(r, data, k)[p]
  BY <1>1, ProcessHears, EventsAre
<1>3. \A key : /\ (\A h \in 1..n : ~On(key, h)) => (key \in held' <=> key \in held)
               /\ ((\E h \in 1..n : On(key, h))
                     /\ \A h \in 1..n : On(key, h) => ev[h].value = 0) => key \notin held'
               /\ ((\E h \in 1..n : On(key, h))
                     /\ \A h \in 1..n : On(key, h) => ev[h].value # 0) => key \in held'
  <2> HIDE DEF ev
  <2> QED
    BY <1>2, HeardIs
<1>4. \A key : \A h \in 1..n :
        On(key, h) <=> ~F[ev[h].field].variable /\ key = <<r, ev[h].field, ev[h].usage>>
  BY DEF Pressed
<1>5. \A key : key \in held /\ key[1] \in Inputs <=>
        \E q \in Inputs : \E k \in DOMAIN reports[q].fields : \E u :
          key = <<q, k, u>> /\ Down(reports[q].fields[k], u)
  <2>1. {key \in held : key[1] \in Inputs} = AllKeys
    BY DEF KeysAgree
  <2> QED
    BY <2>1, KeyIn
<1>6. /\ DOMAIN reports' = DOMAIN reports
      /\ \A i \in DOMAIN reports : /\ reports'[i].type = reports[i].type
                                   /\ i # r => reports'[i] = reports[i]
      /\ DOMAIN reports'[r].fields = DOMAIN F
      /\ \A k \in DOMAIN F : reports'[r].fields[k] = Remembered(F[k], data)
  BY ProcessChanges
<1>7. Inputs' = Inputs /\ \A q \in Inputs : q \in DOMAIN reports
  BY <1>6 DEF Inputs
<1>8. \A key : key \in AllKeys' <=>
        \E q \in Inputs : \E k \in DOMAIN reports'[q].fields : \E u :
          key = <<q, k, u>> /\ Down(reports'[q].fields[k], u)
  BY <1>7 DEF AllKeys, Keys, Down, Before, Valid, Index
<1> HIDE DEF On, n, ev
<1>9. ASSUME NEW k \in DOMAIN F, ~F[k].variable, NEW u
      PROVE  LET A == ArrayOf(r, data, k)
                 g == reports'[r].fields[k]
             IN /\ ~g.variable
                /\ (\A p \in 1..Len(A) : A[p].usage # u) => (Down(g, u) <=> Down(F[k], u))
                /\ \A p \in 1..Len(A) : A[p].usage = u =>
                     (A[p].value = 0 /\ ~Down(g, u)) \/ (A[p].value = 1 /\ Down(g, u))
  <2>1. IsValued(F[k]) /\ F[k].count \in Nat
    BY <1>1 DEF Valued, IsReport, IsField
  <2>2. reports'[r].fields[k] = Remembered(F[k], data)
    BY <1>6
  <2>3. ArrayOf(r, data, k) = ArrayEvents(k, F[k], Fetch(F[k], data))
    BY DEF ArrayOf
  <2> HIDE DEF F
  <2> QED
    BY <1>9, <2>1, <2>2, <2>3, ArrayAgrees
<1>10. ASSUME NEW k \in DOMAIN F, ~F[k].variable, NEW u, r \in Inputs
       PROVE  <<r, k, u>> \in held' <=> Down(reports'[r].fields[k], u)
  <2> DEFINE A == ArrayOf(r, data, k)
             key == <<r, k, u>>
             g == reports'[r].fields[k]
  <2>1. key \in held <=> Down(F[k], u)
    <3>1. key[1] = r
      OBVIOUS
    <3>2. \A q, l, x : key = <<q, l, x>> => q = r /\ l = k /\ x = u
      OBVIOUS
    <3> HIDE DEF key
    <3>3. key = <<r, k, u>>
      BY DEF key
    <3> QED
      BY <1>5, <1>10, <3>1, <3>2, <3>3
  <2>2. \A h \in 1..n : On(key, h) <=> ev[h].field = k /\ ev[h].usage = u
    BY <1>4, <1>10
  <2>3. /\ \A p \in 1..Len(A) : \E h \in 1..n : ev[h] = A[p]
        /\ \A h \in 1..n : ev[h].field = k => \E p \in 1..Len(A) : ev[h] = A[p]
        /\ \A p \in 1..Len(A) : A[p].field = k
    BY <1>1, <1>2, <1>10, ArrayNamesField DEF EventIs, n
  <2>4. /\ (\A p \in 1..Len(A) : A[p].usage # u) => (Down(g, u) <=> Down(F[k], u))
        /\ \A p \in 1..Len(A) : A[p].usage = u =>
             (A[p].value = 0 /\ ~Down(g, u)) \/ (A[p].value = 1 /\ Down(g, u))
    BY <1>9, <1>10
  <2> HIDE DEF key, A, g, F
  <2>5. CASE \A h \in 1..n : ~On(key, h)
    <3>1. \A p \in 1..Len(A) : A[p].usage # u
      BY <2>2, <2>3, <2>5
    <3> QED
      BY <1>3, <2>1, <2>4, <2>5, <3>1 DEF key, g
  <2>6. CASE \E h \in 1..n : On(key, h)
    <3>1. PICK h \in 1..n : On(key, h)
      BY <2>6
    <3>2. PICK p \in 1..Len(A) : ev[h] = A[p]
      BY <2>2, <2>3, <3>1
    <3>3. A[p].usage = u
      BY <2>2, <3>1, <3>2
    <3>4. \A i \in 1..n : On(key, i) => (ev[i].value = 0 /\ ~Down(g, u))
                                          \/ (ev[i].value = 1 /\ Down(g, u))
      BY <2>2, <2>3, <2>4
    <3>5. CASE Down(g, u)
      <4>1. \A i \in 1..n : On(key, i) => ev[i].value # 0
        BY <3>4, <3>5
      <4> QED
        BY <1>3, <2>6, <3>5, <4>1 DEF key, g
    <3>6. CASE ~Down(g, u)
      <4>1. \A i \in 1..n : On(key, i) => ev[i].value = 0
        BY <3>4, <3>6
      <4> QED
        BY <1>3, <2>6, <3>6, <4>1 DEF key, g
    <3> QED
      BY <3>5, <3>6
  <2> QED
    BY <2>5, <2>6
<1>11. ASSUME NEW key, \A k \in DOMAIN F : ~F[k].variable => \A u : key # <<r, k, u>>
       PROVE  key \in held' <=> key \in held
  <2>1. \A h \in 1..n : ~On(key, h)
    <3> SUFFICES ASSUME NEW h \in 1..n, On(key, h) PROVE FALSE
      OBVIOUS
    <3>1. ~F[ev[h].field].variable /\ key = <<r, ev[h].field, ev[h].usage>>
      BY <1>4
    <3>2. ev[h].field \in DOMAIN F
      BY <1>2 DEF EventIs, n
    <3> QED
      BY <1>11, <3>1, <3>2
  <2> QED
    BY <1>3, <2>1
<1>12. \A k \in DOMAIN F : \A u : F[k].variable => ~Down(reports'[r].fields[k], u)
  <2> SUFFICES ASSUME NEW k \in DOMAIN F, F[k].variable
               PROVE  reports'[r].fields[k].variable
    BY DEF Down
  <2>1. SameKind(F[k], Remembered(F[k], data))
    BY RememberedKind DEF Valued
  <2> QED
    BY <1>6, <2>1 DEF SameKind
<1>13. ASSUME NEW key, key \in held', key[1] \in Inputs
       PROVE  key \in AllKeys'
  <2>1. CASE \E k \in DOMAIN F : ~F[k].variable /\ \E u : key = <<r, k, u>>
    <3>1. PICK k \in DOMAIN F : ~F[k].variable /\ \E u : key = <<r, k, u>>
      BY <2>1
    <3>2. PICK u : key = <<r, k, u>>
      BY <3>1
    <3>3. r \in Inputs
      BY <1>13, <3>2
    <3>4. Down(reports'[r].fields[k], u)
      BY <1>10, <1>13, <3>1, <3>2, <3>3
    <3> QED
      BY <1>6, <1>8, <3>2, <3>3, <3>4
  <2>2. CASE ~\E k \in DOMAIN F : ~F[k].variable /\ \E u : key = <<r, k, u>>
    <3>1. key \in held
      BY <1>11, <1>13, <2>2
    <3>2. PICK q \in Inputs : \E k \in DOMAIN reports[q].fields : \E u :
            key = <<q, k, u>> /\ Down(reports[q].fields[k], u)
      BY <1>5, <1>13, <3>1
    <3>3. q # r
      BY <2>2, <3>2 DEF Down
    <3>4. reports'[q] = reports[q]
      BY <1>6, <1>7, <3>3
    <3> QED
      BY <1>8, <3>2, <3>4
  <2> QED
    BY <2>1, <2>2
<1>14. ASSUME NEW key, key \in AllKeys'
       PROVE  key \in held' /\ key[1] \in Inputs
  <2>1. PICK q \in Inputs : \E k \in DOMAIN reports'[q].fields : \E u :
          key = <<q, k, u>> /\ Down(reports'[q].fields[k], u)
    BY <1>8, <1>14
  <2>2. PICK k \in DOMAIN reports'[q].fields :
          \E u : key = <<q, k, u>> /\ Down(reports'[q].fields[k], u)
    BY <2>1
  <2>3. PICK u : key = <<q, k, u>> /\ Down(reports'[q].fields[k], u)
    BY <2>2
  <2>4. key[1] = q
    BY <2>3
  <2>5. CASE q = r
    <3>1. k \in DOMAIN F /\ ~F[k].variable
      BY <1>6, <1>12, <2>3, <2>5
    <3> QED
      BY <1>10, <2>3, <2>4, <2>5, <3>1
  <2>6. CASE q # r
    <3>1. reports'[q] = reports[q]
      BY <1>6, <1>7, <2>6
    <3>2. key \in held
      BY <1>5, <2>3, <3>1
    <3>3. key \in held' <=> key \in held
      BY <1>11, <2>3, <2>6
    <3> QED
      BY <2>4, <3>2, <3>3
  <2> QED
    BY <2>5, <2>6
<1> QED
  BY <1>7, <1>13, <1>14

\* While a descriptor is parsed the minimum that fields take is a number.
IsMinimum(g) == "lmin" \in DOMAIN g /\ g.lmin \in Int
Minima == IsMinimum(global) /\ \A k \in DOMAIN stack : IsMinimum(stack[k])
VInv == Valued /\ (phase = "parse" => Minima)

\* With a driver every report has its list, or none.
OInv == phase = "ready" => DOMAIN order = DOMAIN reports /\ \A r \in DOMAIN reports : Ordered(r)

\* A global item leaves it one.
LEMMA GlobalMinimum ==
  ASSUME Minima, IsSeq(stack), Item.data \in Nat, ~BadGlobal(Item), GlobalItem
  PROVE  Minima'
<1> DEFINE i == Item
<1>1. UData(i) \in Nat /\ SData(i) \in Int
  <2>1. UData(i) \in Nat
    BY DEF UData
  <2>2. \/ SData(i) = UData(i) \/ SData(i) = UData(i) - 2 * 2^7
        \/ SData(i) = UData(i) - 2 * 2^15 \/ SData(i) = UData(i) - 2 * LongSign
    BY DEF SData
  <2>3. 2^7 \in Int /\ 2^15 \in Int /\ LongSign \in Int
    BY ParserAssumption
  <2> HIDE DEF i
  <2> QED
    BY <2>1, <2>2, <2>3
<1>2. IsMinimum(global')
  <2>1. \/ global' = global
        \/ \E x : global' = [global EXCEPT !.page = x] \/ global' = [global EXCEPT !.lmax = x]
                  \/ global' = [global EXCEPT !.pmin = x] \/ global' = [global EXCEPT !.pmax = x]
                  \/ global' = [global EXCEPT !.exponent = x]
                  \/ global' = [global EXCEPT !.size = x]
                  \/ global' = [global EXCEPT !.count = x] \/ global' = [global EXCEPT !.id = x]
        \/ global' = [global EXCEPT !.lmin = SData(i)]
        \/ stack # <<>> /\ global' = Last(stack)
    BY DEF GlobalItem, AfterGlobal
  <2>2. stack # <<>> => IsMinimum(Last(stack))
    <3> SUFFICES ASSUME stack # <<>> PROVE IsMinimum(Last(stack))
      OBVIOUS
    <3>1. Len(stack) \in DOMAIN stack /\ Last(stack) = stack[Len(stack)]
      BY Fronted, SeqShape
    <3> QED
      BY <3>1 DEF Minima
  <2> HIDE DEF i
  <2>3. CASE stack # <<>> /\ global' = Last(stack)
    BY <2>2, <2>3
  <2>4. CASE global' = [global EXCEPT !.lmin = SData(i)]
    BY <1>1, <2>4 DEF Minima, IsMinimum
  <2>5. CASE \/ global' = global
             \/ \E x : global' = [global EXCEPT !.page = x] \/ global' = [global EXCEPT !.lmax = x]
                  \/ global' = [global EXCEPT !.pmin = x] \/ global' = [global EXCEPT !.pmax = x]
                  \/ global' = [global EXCEPT !.exponent = x]
                  \/ global' = [global EXCEPT !.size = x]
                  \/ global' = [global EXCEPT !.count = x] \/ global' = [global EXCEPT !.id = x]
    BY <2>5 DEF Minima, IsMinimum
  <2> QED
    BY <2>1, <2>3, <2>4, <2>5
<1>3. \A k \in DOMAIN stack' : IsMinimum(stack'[k])
  <2>1. \/ stack' = stack \/ stack' = Append(stack, global)
        \/ stack # <<>> /\ stack' = Front(stack)
    BY DEF GlobalItem, AfterStack, BadGlobal
  <2>2. CASE stack' = stack
    BY <2>2 DEF Minima
  <2>3. CASE stack' = Append(stack, global)
    <3>1. \A k \in DOMAIN stack' : (k \in DOMAIN stack /\ stack'[k] = stack[k])
                                     \/ stack'[k] = global
      BY <2>3, Appended, SeqShape
    <3> QED
      BY <3>1 DEF Minima
  <2>4. CASE stack # <<>> /\ stack' = Front(stack)
    <3>1. \A k \in DOMAIN stack' : k \in DOMAIN stack /\ stack'[k] = stack[k]
      BY <2>4, Fronted, SeqShape
    <3> QED
      BY <3>1 DEF Minima
  <2> QED
    BY <2>1, <2>2, <2>3, <2>4
<1> QED
  BY <1>2, <1>3 DEF Minima

\* A new field has a first usage, and a value for every place.
LEMMA MadeValued ==
  ASSUME NEW i, NEW offset, LocalSound, GlobalsSound, Minima, Used # 0
  PROVE  IsValued(NewField(i, offset))
<1> DEFINE f == NewField(i, offset)
           m == Max({Used, global.count})
<1>1. Used \in Nat /\ global.count \in Nat /\ global.lmin \in Int
  BY Completed DEF GlobalsSound, IsGlobal, Minima, IsMinimum
<1>2. m \in Nat /\ m >= global.count /\ m >= 1
  BY <1>1, Extrema
<1>3. /\ f.lmin = global.lmin /\ f.count = global.count
      /\ DOMAIN f.usages = 1..m /\ DOMAIN f.value = 1..m
      /\ {"lmin", "value", "variable", "usages", "count"} \subseteq DOMAIN f
  BY DEF NewField
<1> HIDE DEF f, m
<1> QED
  BY <1>1, <1>2, <1>3 DEF IsValued, f

\* A main item that makes a field, or padding, leaves the others as they are.
LEMMA FieldValued ==
  ASSUME ReportsSound, GlobalsSound, LocalSound, Minima, Valued,
         NEW type, AddField(type), ~Rejected
  PROVE  Valued'
<1> DEFINE with == Registered(type)
           k == CHOOSE r \in DOMAIN with : with[r].type = type /\ with[r].id = global.id
           grown == Grown(with[k])
           f == NewField(Item, with[k].size)
           new == IF Used = 0 THEN grown ELSE WithField(grown, f)
<1>1. /\ IsSeq(with) /\ k \in DOMAIN with
      /\ \A r \in DOMAIN with : IsReport(with[r]) /\ FieldsFit(with[r]) /\ UsagesFit(with[r])
  BY Registering
<1>2. reports' = [with EXCEPT ![k] = new]
  BY DEF AddField
<1>3. ASSUME NEW r \in DOMAIN with, NEW j \in DOMAIN with[r].fields
      PROVE  IsValued(with[r].fields[j])
  <2>1. CASE with = reports
    BY <1>3, <2>1 DEF Valued
  <2>2. CASE with # reports
    <3>1. PICK rep : with = Append(reports, rep) /\ rep.fields = <<>>
      BY <2>2 DEF Registered
    <3>2. IsSeq(reports)
      BY DEF ReportsSound
    <3>3. /\ Len(reports) \in Nat /\ DOMAIN reports = 1..Len(reports)
          /\ DOMAIN with = 1..Len(reports) + 1 /\ with[Len(reports) + 1] = rep
          /\ \A i \in 1..Len(reports) : with[i] = reports[i]
      BY <1>1, <3>1, <3>2, Appended, SeqShape
    <3> HIDE DEF with
    <3>4. CASE r = Len(reports) + 1
      BY <3>1, <3>3, <3>4
    <3>5. CASE r # Len(reports) + 1
      <4>1. r \in DOMAIN reports /\ with[r] = reports[r]
        BY <3>3, <3>5
      <4> QED
        BY <1>3, <4>1 DEF Valued
    <3> QED
      BY <3>4, <3>5
  <2> QED
    BY <2>1, <2>2
<1> HIDE DEF with, k
<1>4. Used # 0 => IsValued(f)
  BY MadeValued
<1>5. IsReport(with[k]) /\ grown.fields = with[k].fields
  BY <1>1 DEF Grown, IsReport
<1> HIDE DEF f
<1>6. \A j \in DOMAIN new.fields : IsValued(new.fields[j])
  <2>1. CASE new.fields = with[k].fields
    BY <1>1, <1>3, <2>1
  <2>2. CASE new.fields # with[k].fields
    <3>0. "fields" \in DOMAIN grown
      BY <1>5 DEF Grown, IsReport
    <3>1. new.fields = Append(with[k].fields, f) /\ Used # 0
      BY <1>5, <2>2, <3>0 DEF WithField
    <3>2. IsSeq(with[k].fields)
      BY <1>5 DEF IsReport
    <3> HIDE DEF new
    <3>3. \A j \in DOMAIN new.fields : j \in DOMAIN with[k].fields
                                         \/ j = Len(with[k].fields) + 1
      BY <3>1, <3>2, Appended, SeqShape
    <3>4. \A j \in DOMAIN with[k].fields : new.fields[j] = with[k].fields[j]
      BY <3>1, <3>2, Appended, SeqShape
    <3>5. new.fields[Len(with[k].fields) + 1] = f
      BY <3>1, <3>2, Appended
    <3> QED
      BY <1>1, <1>3, <1>4, <3>1, <3>3, <3>4, <3>5
  <2> QED
    BY <2>1, <2>2
<1> HIDE DEF new
<1>7. /\ DOMAIN reports' = DOMAIN with
      /\ \A r \in DOMAIN with : reports'[r] = IF r = k THEN new ELSE with[r]
  BY <1>1, <1>2, Replaced
<1> QED
  BY <1>1, <1>3, <1>6, <1>7 DEF Valued

\* Multipliers change the usages' alone.
LEMMA ScaledValued ==
  ASSUME ReportsSound, Valued, reports' = Scaled(reports)
  PROVE  Valued'
<1> DEFINE ms == Multipliers(reports)
<1>1. ASSUME NEW f, IsValued(f)
      PROVE  IsValued(ScaledField(ms, f))
  <2>1. \E us : ScaledField(ms, f) = [f EXCEPT !.usages = us] /\ DOMAIN us = DOMAIN f.usages
    <3> DEFINE us == [k \in DOMAIN f.usages |-> ScaledUsage(ms, f.usages[k])]
    <3>1. ScaledField(ms, f) = [f EXCEPT !.usages = us] /\ DOMAIN us = DOMAIN f.usages
      BY DEF ScaledField
    <3> QED
      BY <3>1
  <2>2. PICK us : ScaledField(ms, f) = [f EXCEPT !.usages = us] /\ DOMAIN us = DOMAIN f.usages
    BY <2>1
  <2> QED
    BY <1>1, <2>2 DEF IsValued
<1>2. ASSUME NEW r \in DOMAIN reports', NEW k \in DOMAIN reports'[r].fields
      PROVE  IsValued(reports'[r].fields[k])
  <2>1. r \in DOMAIN reports
    BY DEF Scaled
  <2>2. IsReport(reports[r])
    BY <2>1 DEF ReportsSound
  <2>3. CASE reports[r].type # "input"
    <3>1. reports'[r] = reports[r]
      BY <2>1, <2>3 DEF Scaled
    <3> QED
      BY <1>2, <2>1, <3>1 DEF Valued
  <2>4. CASE reports[r].type = "input"
    <3>1. reports'[r] = [reports[r] EXCEPT !.fields = [j \in DOMAIN @ |-> ScaledField(ms, @[j])]]
      BY <2>1, <2>4 DEF Scaled
    <3> HIDE DEF ms
    <3>2. reports'[r].fields = [j \in DOMAIN reports[r].fields |->
                                  ScaledField(ms, reports[r].fields[j])]
      BY <2>2, <3>1 DEF IsReport
    <3>3. k \in DOMAIN reports[r].fields
          /\ reports'[r].fields[k] = ScaledField(ms, reports[r].fields[k])
      BY <1>2, <3>2
    <3> QED
      BY <1>1, <2>1, <3>3 DEF Valued
  <2> QED
    BY <2>3, <2>4
<1> QED
  BY <1>2 DEF Valued

\* Every step of the parser keeps fields valued, and none ends with a driver.
LEMMA ParserValues ==
  ASSUME IInv, VInv, ParserNext
  PROVE  VInv' /\ phase # "ready" /\ phase' # "ready"
<1>1. CASE ScanMain \/ ScanGlobal \/ ScanLocal \/ ScanReserved
  <2>1. UNCHANGED reports /\ phase = "scan" /\ phase' = "scan"
    BY <1>1 DEF ScanMain, ScanGlobal, ScanLocal, ScanReserved, deviceVars, Fetched, Advance
  <2> QED
    BY <2>1 DEF VInv, Valued
<1>2. CASE ScanEnds
  <2>1. UNCHANGED reports /\ phase = "scan" /\ Fresh("parse")
    BY <1>2 DEF ScanEnds, deviceVars, Exhausted
  <2>2. phase' = "parse" /\ global' = Global0 /\ stack' = <<>>
    BY <2>1 DEF Fresh
  <2>3. Minima'
    BY <2>2, EmptyIsSeq DEF Minima, IsMinimum, Global0
  <2> QED
    BY <2>1, <2>2, <2>3 DEF VInv, Valued
<1>3. CASE Rejected /\ ~(ScanMain \/ ScanGlobal \/ ScanLocal \/ ScanReserved \/ ScanEnds)
  <2>1. phase = "parse"
    BY <1>3 DEF ParserNext, ParseGlobal, ParseLocal, ParseReserved, ParseLong, BeginCollection,
                EndCollection, OtherMain, AddField, ParseEnds, Fetched, Exhausted
  <2>2. phase' = "rejected" /\ reports' = <<>>
    BY <1>3 DEF Rejected
  <2> QED
    BY <2>1, <2>2, EmptyIsSeq DEF VInv, Valued
<1>4. CASE ~Rejected /\ ParseGlobal
  <2>1. /\ UNCHANGED reports /\ phase = "parse" /\ phase' = "parse"
        /\ Fetched("parse", "global") /\ ~BadGlobal(Item) /\ GlobalItem
    BY <1>4 DEF ParseGlobal, deviceVars, Fetched, Advance
  <2>2. Item.data \in Nat /\ IsSeq(stack) /\ Minima
    BY <2>1, Reading DEF IInv, GlobalsSound, VInv
  <2>3. Minima'
    BY <2>1, <2>2, GlobalMinimum
  <2> QED
    BY <2>1, <2>3 DEF VInv, Valued
<1>5. CASE ~Rejected /\ (ParseLocal \/ ParseReserved \/ ParseLong \/ OtherMain
                           \/ BeginCollection \/ EndCollection)
  <2>1. UNCHANGED <<reports, global, stack>> /\ phase = "parse" /\ phase' = "parse"
    BY <1>5 DEF ParseLocal, ParseReserved, ParseLong, OtherMain, BeginCollection, EndCollection,
                deviceVars, parserVars, LocalItem, Fetched, Advance, MainDone
  <2> QED
    BY <2>1 DEF VInv, Valued, Minima
<1>6. CASE ~Rejected /\ \E type \in {"input", "output", "feature"} : AddField(type)
  <2>1. UNCHANGED <<global, stack>> /\ phase = "parse" /\ phase' = "parse"
    BY <1>6 DEF AddField, Fetched, MainDone, Advance
  <2>2. ReportsSound /\ GlobalsSound /\ LocalSound /\ Minima /\ Valued
    BY <2>1 DEF IInv, VInv
  <2>3. Valued'
    BY <1>6, <2>2, FieldValued
  <2> QED
    BY <2>1, <2>2, <2>3 DEF VInv, Minima
<1>7. CASE ~Rejected /\ ParseEnds
  <2>1. reports' = Scaled(reports) /\ phase = "parse" /\ phase' = "parsed"
    BY <1>7 DEF ParseEnds, Exhausted
  <2>2. Valued'
    BY <2>1, ScaledValued DEF IInv, VInv
  <2> QED
    BY <2>1, <2>2 DEF VInv
<1> QED
  BY <1>1, <1>2, <1>3, <1>4, <1>5, <1>6, <1>7 DEF ParserNext

\* A value that a driver sets changes nothing else.
LEMMA SettingChanges ==
  ASSUME ReportsSound, Valued, NEW r \in DOMAIN reports, NEW k \in DOMAIN reports[r].fields,
         NEW n, NEW v, reports' = [reports EXCEPT ![r].fields[k].value[n] = v]
  PROVE  /\ DOMAIN reports' = DOMAIN reports
         /\ \A i \in DOMAIN reports :
              /\ reports'[i].type = reports[i].type
              /\ i # r => reports'[i] = reports[i]
              /\ DOMAIN reports'[i].fields = DOMAIN reports[i].fields
              /\ \A j \in DOMAIN reports[i].fields :
                   SameKind(reports[i].fields[j], reports'[i].fields[j])
<1> DEFINE field == [reports[r].fields[k] EXCEPT !.value = [@ EXCEPT ![n] = v]]
           new == [reports[r] EXCEPT !.fields = [@ EXCEPT ![k] = field]]
<1>1. /\ IsReport(reports[r])
      /\ \A i \in DOMAIN reports : \A j \in DOMAIN reports[i].fields :
           IsValued(reports[i].fields[j])
  BY DEF ReportsSound, Valued
<1>2. reports' = [reports EXCEPT ![r] = new]
  OBVIOUS
<1>3. SameKind(reports[r].fields[k], field)
  BY <1>1 DEF IsValued, SameKind
<1>4. \A f : IsValued(f) => SameKind(f, f)
  BY DEF SameKind
<1> HIDE DEF field
<1>5. new.type = reports[r].type /\ new.fields = [reports[r].fields EXCEPT ![k] = field]
  BY <1>1 DEF IsReport
<1>6. /\ DOMAIN new.fields = DOMAIN reports[r].fields
      /\ \A j \in DOMAIN reports[r].fields : SameKind(reports[r].fields[j], new.fields[j])
  BY <1>1, <1>3, <1>4, <1>5
<1> HIDE DEF new
<1>7. /\ DOMAIN reports' = DOMAIN reports
      /\ \A i \in DOMAIN reports : reports'[i] = IF i = r THEN new ELSE reports[i]
  BY <1>2, Replaced DEF ReportsSound
<1> QED
  BY <1>1, <1>4, <1>5, <1>6, <1>7

\* The lists and what makes them valued depend on the kinds of fields alone.
LEMMA KindsKept ==
  ASSUME Valued, DOMAIN reports' = DOMAIN reports,
         \A r \in DOMAIN reports :
           /\ DOMAIN reports'[r].fields = DOMAIN reports[r].fields
           /\ \A k \in DOMAIN reports[r].fields :
                SameKind(reports[r].fields[k], reports'[r].fields[k])
  PROVE  Valued' /\ (UNCHANGED order => \A r \in DOMAIN reports : Ordered(r) => Ordered(r)')
<1>1. Valued'
  BY DEF Valued, SameKind
<1>2. ASSUME UNCHANGED order, NEW r \in DOMAIN reports, Ordered(r)
      PROVE  Ordered(r)'
  <2>1. CASE order[r] = <<>>
    BY <1>2, <2>1 DEF Ordered
  <2>2. CASE Listed(order[r], reports[r].fields)
    <3>1. /\ DOMAIN reports'[r].fields = DOMAIN reports[r].fields
          /\ \A k \in DOMAIN reports[r].fields :
               Places(reports'[r].fields[k]) = Places(reports[r].fields[k])
      BY DEF SameKind, Places
    <3>2. Listed(order[r], reports'[r].fields)
      BY <2>2, <3>1 DEF Listed
    <3> QED
      BY <1>2, <3>2 DEF Ordered
  <2> QED
    BY <1>2, <2>1, <2>2 DEF Ordered
<1> QED
  BY <1>1, <1>2

\* Steps with a driver keep what its lists and keys rest on.
LEMMA DriverKeeps ==
  ASSUME IInv, VInv, OInv, KeysAgree, Input \/ SetField \/ SetReport \/ GetReport
  PROVE  VInv' /\ OInv' /\ KeysAgree'
<1>1. /\ UNCHANGED <<claimed, order>> /\ phase = "ready" /\ phase' = "ready"
      /\ ReportsSound /\ Valued /\ DOMAIN order = DOMAIN reports
      /\ \A r \in DOMAIN reports : Ordered(r)
  BY DEF Input, SetField, SetReport, GetReport, RawEvent, RestOfDevice, IInv, VInv, OInv
<1>2. CASE Input \/ GetReport
  <2>1. PICK r \in DOMAIN reports : \E data : Process(r, data)
    BY <1>2 DEF Input, GetReport, RawEvent, Received, ReportOf
  <2>2. PICK data : Process(r, data)
    BY <2>1
  <2>3. KeysAgree'
    BY <1>1, <2>2, ProcessAgrees
  <2>4. /\ DOMAIN reports' = DOMAIN reports
        /\ \A i \in DOMAIN reports : i # r => reports'[i] = reports[i]
        /\ DOMAIN reports'[r].fields = DOMAIN reports[r].fields
        /\ \A k \in DOMAIN reports[r].fields :
             reports'[r].fields[k] = Remembered(reports[r].fields[k], data)
    BY <1>1, <2>2, ProcessChanges
  <2>5. \A i \in DOMAIN reports :
          /\ DOMAIN reports'[i].fields = DOMAIN reports[i].fields
          /\ \A k \in DOMAIN reports[i].fields :
               SameKind(reports[i].fields[k], reports'[i].fields[k])
    <3> SUFFICES ASSUME NEW i \in DOMAIN reports, NEW k \in DOMAIN reports[i].fields
                 PROVE  SameKind(reports[i].fields[k], reports'[i].fields[k])
      BY <2>4
    <3>1. IsValued(reports[i].fields[k])
      BY <1>1 DEF Valued
    <3>2. CASE i = r
      BY <2>4, <3>1, <3>2, RememberedKind
    <3>3. CASE i # r
      BY <2>4, <3>1, <3>3 DEF SameKind
    <3> QED
      BY <3>2, <3>3
  <2>6. Valued' /\ \A i \in DOMAIN reports : Ordered(i)'
    BY <1>1, <2>4, <2>5, KindsKept
  <2> QED
    BY <1>1, <2>3, <2>4, <2>6 DEF VInv, OInv
<1>3. CASE SetField
  <2>1. UNCHANGED held
    BY <1>3 DEF SetField
  <2>2. PICK r \in DOMAIN reports \ Inputs :
          \E k \in DOMAIN reports[r].fields, v \in Settings :
            \E n \in 1..reports[r].fields[k].count :
              reports' = [reports EXCEPT ![r].fields[k].value[n] = v]
    BY <1>3 DEF SetField
  <2>3. PICK k \in DOMAIN reports[r].fields, v \in Settings :
          \E n \in 1..reports[r].fields[k].count :
            reports' = [reports EXCEPT ![r].fields[k].value[n] = v]
    BY <2>2
  <2>4. PICK n \in 1..reports[r].fields[k].count :
          reports' = [reports EXCEPT ![r].fields[k].value[n] = v]
    BY <2>3
  <2>5. /\ DOMAIN reports' = DOMAIN reports
        /\ \A i \in DOMAIN reports :
             /\ reports'[i].type = reports[i].type
             /\ i # r => reports'[i] = reports[i]
             /\ DOMAIN reports'[i].fields = DOMAIN reports[i].fields
             /\ \A j \in DOMAIN reports[i].fields :
                  SameKind(reports[i].fields[j], reports'[i].fields[j])
    BY <1>1, <2>4, SettingChanges
  <2>6. Valued' /\ \A i \in DOMAIN reports : Ordered(i)'
    BY <1>1, <2>5, KindsKept
  <2>7. Inputs' = Inputs /\ \A i \in Inputs : reports'[i] = reports[i]
    BY <2>5 DEF Inputs
  <2>8. AllKeys' = AllKeys
    <3>1. \A i \in Inputs : \A l \in DOMAIN reports[i].fields : Keys(i, l)' = Keys(i, l)
      <4> SUFFICES ASSUME NEW i \in Inputs, NEW l \in DOMAIN reports[i].fields
                   PROVE  Keys(i, l)' = Keys(i, l)
        OBVIOUS
      <4>1. reports'[i].fields[l] = reports[i].fields[l]
        BY <2>7
      <4> QED
        BY <4>1, Zenon DEF Keys, Before, Valid, Index
    <3> QED
      BY <2>7, <3>1 DEF AllKeys
  <2>9. KeysAgree'
    BY <1>1, <2>1, <2>7, <2>8 DEF KeysAgree
  <2> QED
    BY <1>1, <2>5, <2>6, <2>9 DEF VInv, OInv
<1>4. CASE SetReport
  <2>1. UNCHANGED <<reports, held>>
    BY <1>4 DEF SetReport
  <2>2. \A r : Ordered(r)' = Ordered(r)
    BY <1>1, <2>1 DEF Ordered
  <2>3. Inputs' = Inputs /\ AllKeys' = AllKeys
    BY <2>1 DEF Inputs, AllKeys, Keys, Before, Valid, Index
  <2> QED
    BY <1>1, <2>1, <2>2, <2>3 DEF VInv, OInv, Valued, KeysAgree
<1> QED
  BY <1>2, <1>3, <1>4

\* A driver comes: the lists are made, and keys that zeros name count as down.
LEMMA ConnectKeeps ==
  ASSUME IInv, VInv, Connect
  PROVE  VInv' /\ OInv' /\ KeysAgree'
<1>1. /\ phase' = "ready" /\ UNCHANGED reports /\ ReportsSound /\ Valued
      /\ held' = (IF "input" \in claimed' THEN AllKeys ELSE {})
  BY DEF Connect, deviceVars, IInv, VInv
<1>2. PICK rank \in [Ranked -> Priorities] :
        order' = [r \in DOMAIN reports |-> IF r \in Inputs THEN Ordering(r, rank) ELSE <<>>]
  BY DEF Connect
<1>3. ASSUME NEW r \in DOMAIN reports PROVE Ordered(r)'
  <2>1. CASE r \in Inputs
    <3>1. order'[r] = Ordering(r, rank)
      BY <1>2, <2>1
    <3>2. Listed(Ordering(r, rank), reports[r].fields)
      BY <1>1, <2>1, OrderingListed
    <3> QED
      BY <1>1, <3>1, <3>2 DEF Ordered
  <2>2. CASE r \notin Inputs
    <3>1. order'[r] = <<>>
      BY <1>2, <2>2
    <3> QED
      BY <3>1 DEF Ordered
  <2> QED
    BY <2>1, <2>2
<1>4. OInv'
  BY <1>1, <1>2, <1>3 DEF OInv
<1>5. Inputs' = Inputs /\ AllKeys' = AllKeys
  BY <1>1 DEF Inputs, AllKeys, Keys, Before, Valid, Index
<1>6. \A key \in AllKeys : key[1] \in Inputs
  BY KeyIn
<1>7. KeysAgree'
  BY <1>1, <1>5, <1>6 DEF KeysAgree
<1> QED
  BY <1>1, <1>4, <1>7 DEF VInv, Valued

\* In every state every value has its place, every report with a driver its list, and
\* the keys held are those the arrays name.
THEOREM KeysInvariance == Spec => [](VInv /\ OInv /\ KeysAgree)
<1> DEFINE Inv == VInv /\ OInv /\ KeysAgree
<1>1. Init => Inv
  BY EmptyIsSeq DEF Init, ParserInit, VInv, OInv, KeysAgree, Valued
<1>2. IInv /\ Inv /\ [Next]_vars => Inv'
  <2> SUFFICES ASSUME IInv, Inv, [Next]_vars PROVE Inv'
    OBVIOUS
  <2>1. CASE ParserNext
    <3>1. VInv' /\ phase' # "ready"
      BY <2>1, ParserValues
    <3> QED
      BY <3>1 DEF OInv, KeysAgree
  <2>2. CASE Input \/ SetField \/ SetReport \/ GetReport
    BY <2>2, DriverKeeps
  <2>3. CASE Connect
    BY <2>3, ConnectKeeps
  <2>4. CASE Reconnect
    <3>1. /\ reports' = <<>> /\ phase' = "parse" /\ global' = Global0 /\ stack' = <<>>
      BY <2>4 DEF Reconnect, Reopen, Fresh
    <3>2. Minima'
      BY <3>1, EmptyIsSeq DEF Minima, IsMinimum, Global0
    <3>3. Valued'
      BY <3>1, EmptyIsSeq DEF Valued
    <3> QED
      BY <3>1, <3>2, <3>3 DEF VInv, OInv, KeysAgree
  <2>5. CASE UNCHANGED vars
    <3>1. UNCHANGED <<phase, reports, global, stack, claimed, order, held>>
      BY <2>5 DEF vars, hidVars, deviceVars, parserVars
    <3>2. /\ VInv' /\ Inputs' = Inputs /\ AllKeys' = AllKeys
          /\ \A r : Ordered(r)' = Ordered(r)
      BY <3>1 DEF VInv, Valued, Minima, Inputs, AllKeys, Keys, Before, Valid, Index, Ordered
    <3> QED
      BY <3>1, <3>2 DEF OInv, KeysAgree
  <2> QED
    BY <2>1, <2>2, <2>3, <2>4, <2>5 DEF Next
<1> QED
  BY <1>1, <1>2, Invariance, PTL DEF Spec

\* Keys that hidinput believes are down are those the last reports of the inputs named,
\* for every device and however its reports come.
THEOREM KeysStayAgreed == Spec => []KeysAgree
BY KeysInvariance, PTL

-----------------------------------------------------------------------------
(* The order of the events of a report.                                    *)

\* The rank of an event by a list s over the fields F.
RankBy(s, variable, e) ==
  LET Same(x) == /\ x.field = e.field
                 /\ x.usage = e.usage \/ ~variable
      found == {k \in DOMAIN s : Same(s[k])}
  IN IF found = {} THEN 0 ELSE s[CHOOSE k \in found : TRUE].priority
RankIn(s, F, e) == RankBy(s, F[e.field].variable, e)

\* What EventOrder says of the events ev.
Orderly(ev, s, F) ==
  LET heard == {k \in DOMAIN ev : F[ev[k].field].variable}
  IN /\ \A i, j \in DOMAIN ev : i < j =>
          \/ RankIn(s, F, ev[i]) > RankIn(s, F, ev[j])
          \/ RankIn(s, F, ev[i]) = RankIn(s, F, ev[j]) /\ ev[i].field <= ev[j].field
     /\ \A k \in DOMAIN F : F[k].variable =>
          \A n \in 1..F[k].count :
            Cardinality({h \in heard : ev[h] = Event(k, n, F[k].value[n])}) = 1
     /\ Cardinality(heard) = Cardinality(UNION {{<<k, n>> : n \in 1..F[k].count} :
                               k \in {x \in DOMAIN F : F[x].variable}})

\* EventOrder says it of the last report.
LEMMA OrderIs ==
  EventOrder = (told.report # 0 =>
                  Orderly(told.events, order[told.report], reports[told.report].fields))
BY Zenon DEF EventOrder, Orderly, InOrder, RankOf, RankIn, RankBy

\* The rank of an event is that of the place it comes from.
LEMMA RankIs ==
  ASSUME NEW r, Ordered(r), NEW e, e.field \in DOMAIN reports[r].fields, NEW i, From(r, i, e)
  PROVE  RankIn(order[r], reports[r].fields, e)
           = IF order[r] = <<>> THEN 0 ELSE order[r][i].priority
<1> DEFINE s == order[r]
           F == reports[r].fields
           Same(x) == x.field = e.field /\ (x.usage = e.usage \/ ~F[e.field].variable)
           found == {k \in DOMAIN s : Same(s[k])}
<1>1. RankIn(s, F, e) = IF found = {} THEN 0 ELSE s[CHOOSE k \in found : TRUE].priority
  BY DEF RankIn, RankBy
<1>2. CASE s = <<>>
  <2>1. found = {}
    BY <1>2, EmptyIsSeq
  <2> QED
    BY <1>1, <1>2, <2>1
<1>3. CASE s # <<>>
  <2>1. Listed(s, F)
    BY <1>3 DEF Ordered
  <2>2. /\ i \in 1..Len(s) /\ s[i].field = e.field
        /\ F[e.field].variable => s[i].usage = e.usage
    BY <1>3 DEF From
  <2>3. DOMAIN s = 1..Len(s)
    BY <2>1, SeqShape DEF Listed
  <2> HIDE DEF s, F
  <2>4. i \in found
    BY <2>2, <2>3
  <2>5. ASSUME NEW k \in found PROVE k = i
    <3>1. k \in 1..Len(s) /\ s[k].field = e.field
          /\ (s[k].usage = e.usage \/ ~F[e.field].variable)
      BY <2>3, <2>5
    <3>2. CASE F[e.field].variable
      BY <2>1, <2>2, <3>1, <3>2 DEF Listed
    <3>3. CASE ~F[e.field].variable
      <4>1. s[k].usage \in 1..1 /\ s[i].usage \in 1..1
        BY <2>1, <2>2, <3>1, <3>3 DEF Listed, Places
      <4>2. s[k].usage = s[i].usage
        BY <4>1
      <4> QED
        BY <2>1, <2>2, <3>1, <4>2 DEF Listed
    <3> QED
      BY <3>2, <3>3
  <2> HIDE DEF found
  <2>6. (CHOOSE k \in found : TRUE) = i /\ found # {}
    BY <2>4, <2>5
  <2> QED
    BY <1>1, <1>3, <2>6 DEF s, F
<1> QED
  BY <1>2, <1>3

\* What comes first does not rank lower, and among equals is not later in the descriptor.
LEMMA RanksDescend ==
  ASSUME NEW r \in DOMAIN reports, IsReport(reports[r]), Ordered(r), NEW d, NEW e,
         d.field \in DOMAIN reports[r].fields, e.field \in DOMAIN reports[r].fields,
         NEW i \in Nat, NEW j \in Nat, i <= j, From(r, i, d), From(r, j, e)
  PROVE  LET R(x) == RankIn(order[r], reports[r].fields, x)
         IN R(d) > R(e) \/ (R(d) = R(e) /\ d.field <= e.field)
<1> DEFINE s == order[r]
           R(x) == RankIn(s, reports[r].fields, x)
<1>1. /\ R(d) = (IF s = <<>> THEN 0 ELSE s[i].priority)
      /\ R(e) = (IF s = <<>> THEN 0 ELSE s[j].priority)
  BY RankIs
<1>2. d.field \in Nat /\ e.field \in Nat
  <2>1. DOMAIN reports[r].fields = 1..Len(reports[r].fields) /\ Len(reports[r].fields) \in Nat
    BY SeqShape DEF IsReport
  <2> QED
    BY <2>1
<1> HIDE DEF R
<1>3. CASE s = <<>>
  <2>1. i = d.field /\ j = e.field
    BY <1>3 DEF From
  <2> QED
    BY <1>1, <1>3, <2>1 DEF R
<1>4. CASE s # <<>>
  <2>1. /\ i \in 1..Len(s) /\ s[i].field = d.field
        /\ j \in 1..Len(s) /\ s[j].field = e.field
        /\ \A p, q \in 1..Len(s) : p < q => Above(s[p], s[q])
    BY <1>4 DEF From, Ordered, Listed
  <2> HIDE DEF s
  <2>2. CASE i = j
    BY <1>1, <1>2, <1>4, <2>1, <2>2 DEF R, s
  <2>3. CASE i < j
    <3>1. \/ s[i].priority > s[j].priority
          \/ s[i].priority = s[j].priority /\ (d.field < e.field \/ d.field = e.field)
      BY <2>1, <2>3 DEF Above, Earlier
    <3> QED
      BY <1>1, <1>2, <1>4, <3>1 DEF R, s
  <2> QED
    BY <2>2, <2>3
<1> QED
  BY <1>3, <1>4

\* Variables and the events they give are as many, one each.
Variables(F) == UNION {{<<k, n>> : n \in 1..F[k].count} : k \in {x \in DOMAIN F : F[x].variable}}

\* Events that name each variable once are as many.
LEMMA OneForEach ==
  ASSUME NEW ev, IsSeq(ev), NEW F,
         \A h \in 1..Len(ev) : /\ ev[h].field \in DOMAIN F
                               /\ F[ev[h].field].variable =>
                                    ev[h].usage \in 1..F[ev[h].field].count,
         \A k \in DOMAIN F : F[k].variable => \A u \in 1..F[k].count : \E h \in 1..Len(ev) :
           ev[h].field = k /\ ev[h].usage = u,
         \A g, h \in 1..Len(ev) : ev[g].field = ev[h].field /\ ev[g].usage = ev[h].usage
                                    /\ F[ev[g].field].variable => g = h
  PROVE  Cardinality({h \in DOMAIN ev : F[ev[h].field].variable}) = Cardinality(Variables(F))
<1> DEFINE S == {h \in 1..Len(ev) : F[ev[h].field].variable}
           V == Variables(F)
           b == [h \in S |-> <<ev[h].field, ev[h].usage>>]
<1>1. Len(ev) \in Nat /\ DOMAIN ev = 1..Len(ev)
  BY SeqShape
<1>2. \A x : x \in V <=> \E k \in DOMAIN F : F[k].variable /\ \E n \in 1..F[k].count : x = <<k, n>>
  BY DEF Variables
<1>3. IsFiniteSet(S)
  <2>1. S \in SUBSET (1..Len(ev))
    OBVIOUS
  <2>2. IsFiniteSet(1..Len(ev))
    BY <1>1, FS_Interval
  <2> HIDE DEF S
  <2> QED
    BY <2>1, <2>2, FS_Subset
<1> HIDE DEF V
<1>4. \A h \in S : b[h] \in V
  BY <1>2
<1>5. b \in [S -> V]
  BY <1>4
<1>6. \A g, h \in S : b[g] = b[h] => g = h
  OBVIOUS
<1>7. ASSUME NEW x \in V PROVE \E h \in S : b[h] = x
  <2>1. PICK k \in DOMAIN F : F[k].variable /\ \E n \in 1..F[k].count : x = <<k, n>>
    BY <1>2
  <2>2. PICK n \in 1..F[k].count : x = <<k, n>>
    BY <2>1
  <2>3. PICK h \in 1..Len(ev) : ev[h].field = k /\ ev[h].usage = n
    BY <2>1
  <2>4. h \in S /\ b[h] = x
    BY <2>1, <2>2, <2>3
  <2> QED
    BY <2>4
<1> HIDE DEF b
<1>8. b \in Bijection(S, V)
  BY <1>5, <1>6, <1>7 DEF Bijection, Injection, Surjection, IsInjective
<1>9. ExistsBijection(S, V)
  BY <1>8 DEF ExistsBijection
<1>10. Cardinality(V) = Cardinality(S)
  <2> HIDE DEF S
  <2> QED
    BY <1>3, <1>9, FS_Bijection
<1> QED
  BY <1>1, <1>10 DEF S, V

\* A variable remembers what the report said of it.
LEMMA VariableRemembers ==
  ASSUME NEW f, IsValued(f), f.variable, NEW data
  PROVE  /\ Remembered(f, data).variable /\ Remembered(f, data).count = f.count
         /\ \A n \in 1..f.count : Remembered(f, data).value[n] = Fetch(f, data)[n]
<1> DEFINE new == Fetch(f, data)
<1>1. Remembered(f, data) =
        [f EXCEPT !.value = [n \in DOMAIN @ |-> IF n <= f.count THEN new[n] ELSE @[n]]]
  BY DEF Remembered, Overrun
<1> HIDE DEF new
<1>2. {"value", "variable", "count"} \subseteq DOMAIN f /\ 1..f.count \subseteq DOMAIN f.value
  BY DEF IsValued
<1> QED
  BY <1>1, <1>2 DEF new

\* A report that is processed gives its events in order.
LEMMA ProcessOrders ==
  ASSUME ReportsSound, Valued, NEW r \in DOMAIN reports, Ordered(r), UNCHANGED order,
         NEW data, Process(r, data)
  PROVE  EventOrder'
<1> DEFINE F == reports[r].fields
           G == reports'[r].fields
           ev == EventsOf(r, data)
<1>1. IsReport(reports[r]) /\ \A k \in DOMAIN F : IsValued(F[k])
  BY DEF ReportsSound, Valued
<1>2. told'.report = r /\ told'.events = ev
  BY ProcessHears
<1>3. /\ IsSeq(ev)
      /\ \A h \in 1..Len(ev) : EventIs(r, data, ev[h])
      /\ \A k \in DOMAIN F : F[k].variable => \A u \in 1..F[k].count : \E h \in 1..Len(ev) :
           ev[h].field = k /\ ev[h].usage = u
      /\ \A g, h \in 1..Len(ev) : ev[g].field = ev[h].field /\ ev[g].usage = ev[h].usage
                                    /\ F[ev[g].field].variable => g = h
      /\ \A g, h \in 1..Len(ev) : g < h =>
           \E i, j \in Nat : i <= j /\ From(r, i, ev[g]) /\ From(r, j, ev[h])
  BY <1>1, EventsAre
<1>4. /\ DOMAIN G = DOMAIN F
      /\ \A k \in DOMAIN F : G[k] = Remembered(F[k], data)
  BY ProcessChanges
<1>5. \A k \in DOMAIN F : /\ G[k].variable = F[k].variable /\ G[k].count = F[k].count
                          /\ F[k].variable => \A n \in 1..F[k].count :
                               G[k].value[n] = Fetch(F[k], data)[n]
  BY <1>1, <1>4, RememberedKind, VariableRemembers DEF SameKind
<1>6. \A h \in 1..Len(ev) :
        /\ ev[h].field \in DOMAIN F
        /\ F[ev[h].field].variable =>
             /\ ev[h].usage \in 1..F[ev[h].field].count
             /\ ev[h] = Event(ev[h].field, ev[h].usage,
                              Fetch(F[ev[h].field], data)[ev[h].usage])
  BY <1>3 DEF EventIs
<1>7. DOMAIN ev = 1..Len(ev)
  BY <1>3, SeqShape
<1> HIDE DEF F, G, ev
<1>8. \A h \in 1..Len(ev) : RankIn(order[r], G, ev[h]) = RankIn(order[r], F, ev[h])
  <2> SUFFICES ASSUME NEW h \in 1..Len(ev)
               PROVE  RankIn(order[r], G, ev[h]) = RankIn(order[r], F, ev[h])
    OBVIOUS
  <2>1. G[ev[h].field].variable = F[ev[h].field].variable
    BY <1>5, <1>6
  <2> QED
    BY <2>1 DEF RankIn
<1>9. ASSUME NEW g \in 1..Len(ev), NEW h \in 1..Len(ev), g < h
      PROVE  \/ RankIn(order[r], G, ev[g]) > RankIn(order[r], G, ev[h])
             \/ /\ RankIn(order[r], G, ev[g]) = RankIn(order[r], G, ev[h])
                /\ ev[g].field <= ev[h].field
  <2>1. PICK i \in Nat : \E j \in Nat : i <= j /\ From(r, i, ev[g]) /\ From(r, j, ev[h])
    BY <1>3, <1>9
  <2>2. PICK j \in Nat : i <= j /\ From(r, i, ev[g]) /\ From(r, j, ev[h])
    BY <2>1
  <2>3. \/ RankIn(order[r], F, ev[g]) > RankIn(order[r], F, ev[h])
        \/ /\ RankIn(order[r], F, ev[g]) = RankIn(order[r], F, ev[h])
           /\ ev[g].field <= ev[h].field
    BY <1>1, <1>6, <2>2, RanksDescend DEF F
  <2> QED
    BY <1>8, <2>3
<1> DEFINE heard == {h \in DOMAIN ev : G[ev[h].field].variable}
<1>10. ASSUME NEW k \in DOMAIN G, G[k].variable, NEW n \in 1..G[k].count
       PROVE  Cardinality({h \in heard : ev[h] = Event(k, n, G[k].value[n])}) = 1
  <2>1. k \in DOMAIN F /\ F[k].variable /\ n \in 1..F[k].count
        /\ G[k].value[n] = Fetch(F[k], data)[n]
    BY <1>4, <1>5, <1>10
  <2>2. PICK h \in 1..Len(ev) : ev[h].field = k /\ ev[h].usage = n
    BY <1>3, <2>1
  <2>3. h \in heard /\ ev[h] = Event(k, n, G[k].value[n])
    BY <1>6, <1>7, <1>10, <2>1, <2>2
  <2>4. ASSUME NEW g \in heard, ev[g] = Event(k, n, G[k].value[n]) PROVE g = h
    <3>1. g \in 1..Len(ev) /\ ev[g].field = k /\ ev[g].usage = n
      BY <1>7, <2>4 DEF Event
    <3> QED
      BY <1>3, <2>1, <2>2, <3>1
  <2>5. {g \in heard : ev[g] = Event(k, n, G[k].value[n])} = {h}
    <3> HIDE DEF heard
    <3> QED
      BY <2>3, <2>4
  <2> QED
    BY <2>5, FS_Singleton
<1>11. Cardinality(heard) = Cardinality(UNION {{<<k, n>> : n \in 1..G[k].count} :
                              k \in {x \in DOMAIN G : G[x].variable}})
  <2>1. Cardinality({h \in DOMAIN ev : G[ev[h].field].variable}) = Cardinality(Variables(G))
    <3>1. /\ \A h \in 1..Len(ev) :
               /\ ev[h].field \in DOMAIN G
               /\ G[ev[h].field].variable => ev[h].usage \in 1..G[ev[h].field].count
          /\ \A k \in DOMAIN G : G[k].variable => \A u \in 1..G[k].count :
               \E h \in 1..Len(ev) : ev[h].field = k /\ ev[h].usage = u
      BY <1>3, <1>4, <1>5, <1>6
    <3>2. \A g, h \in 1..Len(ev) : ev[g].field = ev[h].field /\ ev[g].usage = ev[h].usage
                                     /\ G[ev[g].field].variable => g = h
      BY <1>3, <1>5, <1>6
    <3> QED
      BY <1>3, <3>1, <3>2, OneForEach
  <2> QED
    BY <2>1 DEF Variables
<1> HIDE DEF heard
<1>12. Orderly(ev, order[r], G)
  BY <1>7, <1>9, <1>10, <1>11 DEF Orderly, heard
<1>13. EventOrder' = (told'.report # 0 =>
         Orderly(told'.events, order'[told'.report], reports'[told'.report].fields))
  BY Zenon DEF EventOrder, Orderly, InOrder, RankOf, RankIn, RankBy
<1> QED
  BY <1>2, <1>12, <1>13 DEF G

\* Before a driver comes no report is processed.
TInv == phase # "ready" => told = Quiet

\* Every report gives one event for each of its variables, with the value remembered, and
\* the events come by rank, for every device and whatever ranks hidinput gives.
THEOREM EventsInOrder == Spec => []EventOrder
<1> DEFINE Inv == TInv /\ EventOrder
<1>1. told = Quiet => EventOrder
  BY DEF Quiet, EventOrder
<1>2. told' = Quiet => EventOrder'
  BY DEF Quiet, EventOrder
<1>3. Init => Inv
  BY <1>1 DEF Init, TInv
<1>4. IInv /\ VInv /\ OInv /\ Inv /\ [Next]_vars => Inv'
  <2> SUFFICES ASSUME IInv, VInv, OInv, Inv, [Next]_vars PROVE Inv'
    OBVIOUS
  <2>1. CASE ParserNext /\ UNCHANGED reportVars
    <3>1. phase # "ready" /\ UNCHANGED told
      BY <2>1, ParserValues DEF reportVars
    <3> QED
      BY <1>2, <3>1 DEF TInv
  <2>2. CASE Connect
    <3>1. told' = Quiet
      BY <2>2 DEF Connect, TInv
    <3> QED
      BY <1>2, <3>1 DEF TInv
  <2>3. CASE SetField \/ SetReport \/ Reconnect
    <3>1. told' = Quiet
      BY <2>3 DEF SetField, SetReport, Reconnect
    <3> QED
      BY <1>2, <3>1 DEF TInv
  <2>4. CASE Input \/ GetReport
    <3>1. phase = "ready" /\ phase' = "ready" /\ UNCHANGED order
      BY <2>4 DEF Input, GetReport, RawEvent, RestOfDevice
    <3>2. PICK r \in DOMAIN reports : \E data : Process(r, data)
      BY <2>4 DEF Input, GetReport, RawEvent, Received, ReportOf
    <3>3. PICK data : Process(r, data)
      BY <3>2
    <3>4. ReportsSound /\ Valued /\ Ordered(r)
      BY <3>1 DEF IInv, VInv, OInv
    <3>5. EventOrder'
      BY <3>1, <3>3, <3>4, ProcessOrders
    <3> QED
      BY <3>1, <3>5 DEF TInv
  <2>5. CASE UNCHANGED vars
    <3>1. UNCHANGED <<phase, told, order, reports>>
      BY <2>5 DEF vars, hidVars
    <3>2. EventOrder' = (told'.report # 0 =>
            Orderly(told'.events, order'[told'.report], reports'[told'.report].fields))
      BY Zenon DEF EventOrder, Orderly, InOrder, RankOf, RankIn, RankBy
    <3> QED
      BY <3>1, <3>2, OrderIs DEF TInv
  <2> QED
    BY <2>1, <2>2, <2>3, <2>4, <2>5 DEF Next
<1> QED
  BY <1>3, <1>4, Invariance, KeysInvariance, PTL DEF Spec

-----------------------------------------------------------------------------
(* A descriptor is read twice.  What the two readings have in common is a  *)
(* function of the global state, its stack and the local state.            *)

\* hid_parser_global of any state.
BadIn(s, i) ==
  \/ i.tag = "push" /\ Len(s) = StackSize
  \/ i.tag = "pop" /\ s = <<>>
  \/ i.tag = "report_size" /\ UData(i) > 256
  \/ i.tag = "report_count" /\ UData(i) > MaxUsages
  \/ i.tag = "report_id" /\ (UData(i) = 0 \/ UData(i) >= MaxIds)
  \/ i.tag = "unknown"
GlobalOf(g, s, i) ==
  CASE i.tag = "usage_page"   -> [g EXCEPT !.page = UData(i)]
    [] i.tag = "logical_min"  -> [g EXCEPT !.lmin = SData(i)]
    [] i.tag = "logical_max"  -> [g EXCEPT !.lmax = IF g.lmin < 0 THEN SData(i) ELSE Kept32(i)]
    [] i.tag = "physical_min" -> [g EXCEPT !.pmin = SData(i)]
    [] i.tag = "physical_max" -> [g EXCEPT !.pmax = IF g.pmin < 0 THEN SData(i) ELSE Kept32(i)]
    [] i.tag = "exponent"     -> [g EXCEPT !.exponent = Exponent(SData(i))]
    [] i.tag = "report_size"  -> [g EXCEPT !.size = UData(i)]
    [] i.tag = "report_count" -> [g EXCEPT !.count = UData(i)]
    [] i.tag = "report_id"    -> [g EXCEPT !.id = UData(i)]
    [] i.tag = "pop" /\ s # <<>> -> Last(s)
    [] OTHER -> g
StackOf(g, s, i) ==
  CASE i.tag = "push" /\ ~BadIn(s, i) -> Append(s, g)
    [] i.tag = "pop" /\ ~BadIn(s, i)  -> Front(s)
    [] OTHER -> s

\* hid_parser_local of any state, under a page and in a collection.
UsageIn(c, page, u, size) ==
  [hid |-> IF size <= 2 THEN (u % Half) + (page % Half) * Half ELSE u, size |-> size, coll |-> c]
BeyondIn(l, i) == LET sum == UData(i) - l.min + Len(l.usages)
                  IN sum < 0 \/ sum >= MaxUsages
LastIn(l, i) == IF BeyondIn(l, i) THEN MaxUsages - Len(l.usages) + l.min - 1 ELSE UData(i)
RangeIn(c, page, l, i) ==
  [n \in 1..(LastIn(l, i) - l.min + 1) |-> UsageIn(c, page, l.min + n - 1, i.size)]
BadUsageIn(l, i) ==
  \/ i.tag = "delimiter" /\ UData(i) # 0 /\ l.depth # 0
  \/ i.tag = "delimiter" /\ UData(i) = 0 /\ l.depth < 1
  \/ i.tag = "usage" /\ ~(l.branch > 1) /\ Len(l.usages) >= MaxUsages
  \/ i.tag = "usage_max" /\ ~(l.branch > 1) /\ BeyondIn(l, i) /\ LastIn(l, i) <= 0
LocalOf(c, page, l, i) ==
  IF BadUsageIn(l, i) THEN l
  ELSE CASE i.tag = "delimiter" /\ UData(i) # 0 ->
              [l EXCEPT !.depth = @ + 1, !.branch = @ + 1]
         [] i.tag = "delimiter" /\ UData(i) = 0 -> [l EXCEPT !.depth = @ - 1]
         [] i.tag = "usage" /\ ~(l.branch > 1) ->
              [l EXCEPT !.usages = Append(@, UsageIn(c, page, UData(i), i.size))]
         [] i.tag = "usage_min" /\ ~(l.branch > 1) -> [l EXCEPT !.min = UData(i)]
         [] i.tag = "usage_max" /\ ~(l.branch > 1) ->
              [l EXCEPT !.usages = @ \o RangeIn(c, page, l, i)]
         [] OTHER -> l

\* The usages of a main item.
OfPage(page, u) == Short(u) /\ u.hid \div Half = page
CompleteIn(page, us, k) ==
  IF Short(us[k]) /\ \A j \in k..Len(us) : ~OfPage(page, us[j])
  THEN [us[k] EXCEPT !.hid = (@ % Half) + (page % Half) * Half] ELSE us[k]
HidsIn(page, l) == {CompleteIn(page, l.usages, k).hid : k \in DOMAIN l.usages}

\* The collection that a usage is in.
Innermost == IF open = <<>> THEN 1 ELSE Last(open)

\* The parser's state is such a state.
LEMMA ParserIsIn ==
  ASSUME NEW i
  PROVE  /\ AfterGlobal(i) = GlobalOf(global, stack, i)
         /\ AfterStack(i) = StackOf(global, stack, i)
         /\ AfterLocal(i) = LocalOf(Innermost, global.page, local, i)
         /\ Hids = HidsIn(global.page, local)
         /\ \A k \in DOMAIN local.usages :
              Concatenated[k] = CompleteIn(global.page, local.usages, k)
<1>1. BadGlobal(i) = BadIn(stack, i)
  BY DEF BadGlobal, BadIn
<1>2. AfterGlobal(i) = GlobalOf(global, stack, i)
  BY DEF AfterGlobal, GlobalOf
<1>3. AfterStack(i) = StackOf(global, stack, i)
  BY <1>1 DEF AfterStack, StackOf
<1>4. \A u, size : NewUsage(u, size) = UsageIn(Innermost, global.page, u, size)
  BY DEF NewUsage, Complete, UsageIn, Innermost
<1>5. Exceeds(i) = BeyondIn(local, i)
  BY DEF Exceeds, BeyondIn, Used
<1>6. RangeEnd(i) = LastIn(local, i)
  BY <1>5 DEF RangeEnd, LastIn, Used
<1>7. Ranged(i) = RangeIn(Innermost, global.page, local, i)
  BY <1>4, <1>6 DEF Ranged, RangeIn
<1>8. BadLocal(i) = BadUsageIn(local, i)
  BY <1>5, <1>6 DEF BadLocal, BadUsageIn, Ignored, Used
<1>9. AfterLocal(i) = LocalOf(Innermost, global.page, local, i)
  BY <1>4, <1>7, <1>8 DEF AfterLocal, LocalOf, Ignored
<1>10. \A k \in DOMAIN local.usages :
         Concatenated[k] = CompleteIn(global.page, local.usages, k)
  BY DEF Concatenated, CompleteIn, OfPage, Complete
<1>11. Hids = HidsIn(global.page, local)
  BY <1>10 DEF Hids, HidsIn
<1> QED
  BY <1>2, <1>3, <1>9, <1>10, <1>11

\* Two lists of usages that differ in the collections only, and two local
\* states with such lists.
SameUsages(us, vs) ==
  /\ IsSeq(us) /\ IsSeq(vs) /\ Len(us) = Len(vs)
  /\ \A k \in 1..Len(us) :
       /\ DOMAIN us[k] = {"hid", "size", "coll"} /\ DOMAIN vs[k] = {"hid", "size", "coll"}
       /\ us[k].hid = vs[k].hid /\ us[k].size = vs[k].size
IsLocal(l) == DOMAIN l = {"usages", "min", "depth", "branch"} /\ l.min \in Nat
SameLocal(l, m) ==
  /\ IsLocal(l) /\ IsLocal(m)
  /\ SameUsages(l.usages, m.usages)
  /\ l.min = m.min /\ l.depth = m.depth /\ l.branch = m.branch

\* The clear local state has no usage.
LEMMA SameClear == SameLocal(Local0, Local0)
<1>1. /\ Local0.usages = <<>> /\ Local0.min = 0
      /\ DOMAIN Local0 = {"usages", "min", "depth", "branch"}
  BY DEF Local0
<1>2. SameUsages(<<>>, <<>>)
  BY EmptyIsSeq DEF SameUsages
<1> QED
  BY <1>1, <1>2 DEF SameLocal, IsLocal

\* Two such lists in a row.
LEMMA SameJoined ==
  ASSUME NEW us, NEW vs, NEW r, NEW s, SameUsages(us, vs), SameUsages(r, s)
  PROVE  SameUsages(us \o r, vs \o s)
<1> DEFINE n == Len(us)
           m == Len(r)
           x == us \o r
           y == vs \o s
<1>1. /\ IsSeq(us) /\ IsSeq(vs) /\ IsSeq(r) /\ IsSeq(s)
      /\ n \in Nat /\ m \in Nat /\ Len(vs) = n /\ Len(s) = m
  BY SeqShape DEF SameUsages
<1>2. /\ IsSeq(x) /\ Len(x) = n + m
      /\ \A k \in 1..n + m : x[k] = IF k <= n THEN us[k] ELSE r[k - n]
  BY <1>1, Joined
<1>3. /\ IsSeq(y) /\ Len(y) = n + m
      /\ \A k \in 1..n + m : y[k] = IF k <= n THEN vs[k] ELSE s[k - n]
  BY <1>1, Joined
<1> HIDE DEF n, m, x, y
<1>4. ASSUME NEW k \in 1..n + m
      PROVE  /\ DOMAIN x[k] = {"hid", "size", "coll"} /\ DOMAIN y[k] = {"hid", "size", "coll"}
             /\ x[k].hid = y[k].hid /\ x[k].size = y[k].size
  <2>1. CASE k <= n
    <3>1. k \in 1..n /\ x[k] = us[k] /\ y[k] = vs[k]
      BY <1>1, <1>2, <1>3, <2>1
    <3> QED
      BY <3>1 DEF SameUsages, n
  <2>2. CASE ~(k <= n)
    <3>1. k - n \in 1..m /\ x[k] = r[k - n] /\ y[k] = s[k - n]
      BY <1>1, <1>2, <1>3, <2>2
    <3> QED
      BY <3>1 DEF SameUsages, m
  <2> QED
    BY <2>1, <2>2
<1>5. SameUsages(x, y)
  BY <1>2, <1>3, <1>4 DEF SameUsages
<1> QED
  BY <1>5 DEF x, y

\* One usage more in each.
LEMMA SameAppended ==
  ASSUME NEW us, NEW vs, NEW u, NEW v, SameUsages(us, vs),
         DOMAIN u = {"hid", "size", "coll"}, DOMAIN v = {"hid", "size", "coll"},
         u.hid = v.hid, u.size = v.size
  PROVE  SameUsages(Append(us, u), Append(vs, v))
<1> DEFINE n == Len(us)
           x == Append(us, u)
           y == Append(vs, v)
<1>1. IsSeq(us) /\ IsSeq(vs) /\ n \in Nat /\ Len(vs) = n
  BY SeqShape DEF SameUsages
<1>2. /\ IsSeq(x) /\ Len(x) = n + 1 /\ x[n + 1] = u /\ \A k \in 1..n : x[k] = us[k]
  BY <1>1, Appended
<1>3. /\ IsSeq(y) /\ Len(y) = n + 1 /\ y[n + 1] = v /\ \A k \in 1..n : y[k] = vs[k]
  BY <1>1, Appended
<1> HIDE DEF n, x, y
<1>4. ASSUME NEW k \in 1..n + 1
      PROVE  /\ DOMAIN x[k] = {"hid", "size", "coll"} /\ DOMAIN y[k] = {"hid", "size", "coll"}
             /\ x[k].hid = y[k].hid /\ x[k].size = y[k].size
  <2>1. CASE k \in 1..n
    BY <1>2, <1>3, <2>1 DEF SameUsages, n
  <2>2. CASE k = n + 1
    BY <1>2, <1>3, <2>2
  <2> QED
    BY <1>1, <2>1, <2>2
<1>5. SameUsages(x, y)
  BY <1>2, <1>3, <1>4 DEF SameUsages
<1> QED
  BY <1>5 DEF x, y

\* They give one set of usages.
LEMMA SameHids ==
  ASSUME NEW l, NEW m, NEW page, SameLocal(l, m)
  PROVE  HidsIn(page, l) = HidsIn(page, m)
<1> DEFINE us == l.usages
           vs == m.usages
           n == Len(us)
<1>1. /\ n \in Nat /\ Len(vs) = n /\ DOMAIN us = 1..n /\ DOMAIN vs = 1..n
  BY SeqShape DEF SameLocal, SameUsages
<1>2. \A k \in 1..n : /\ Short(us[k]) = Short(vs[k])
                      /\ OfPage(page, us[k]) = OfPage(page, vs[k])
  BY DEF SameLocal, SameUsages, Short, OfPage
<1>3. \A k \in 1..n :
        /\ DOMAIN us[k] = {"hid", "size", "coll"} /\ DOMAIN vs[k] = {"hid", "size", "coll"}
        /\ us[k].hid = vs[k].hid
  BY DEF SameLocal, SameUsages
<1>4. HidsIn(page, l) = {CompleteIn(page, us, k).hid : k \in 1..n}
  BY <1>1 DEF HidsIn
<1>5. HidsIn(page, m) = {CompleteIn(page, vs, k).hid : k \in 1..n}
  BY <1>1 DEF HidsIn
<1> HIDE DEF us, vs, n
<1>6. ASSUME NEW k \in 1..n
      PROVE  CompleteIn(page, us, k).hid = CompleteIn(page, vs, k).hid
  <2>1. \A j \in k..n : OfPage(page, us[j]) = OfPage(page, vs[j])
    BY <1>1, <1>2
  <2>2. CASE Short(us[k]) /\ \A j \in k..n : ~OfPage(page, us[j])
    <3>1. /\ CompleteIn(page, us, k) = [us[k] EXCEPT !.hid = (@ % Half) + (page % Half) * Half]
          /\ CompleteIn(page, vs, k) = [vs[k] EXCEPT !.hid = (@ % Half) + (page % Half) * Half]
      BY <1>1, <1>2, <2>1, <2>2 DEF CompleteIn, n
    <3> QED
      BY <1>3, <3>1
  <2>3. CASE ~(Short(us[k]) /\ \A j \in k..n : ~OfPage(page, us[j]))
    <3>1. CompleteIn(page, us, k) = us[k] /\ CompleteIn(page, vs, k) = vs[k]
      BY <1>1, <1>2, <2>1, <2>3 DEF CompleteIn, n
    <3> QED
      BY <1>3, <3>1
  <2> QED
    BY <2>2, <2>3
<1> QED
  BY <1>4, <1>5, <1>6

\* A local item keeps them the same.
LEMMA SameAfter ==
  ASSUME NEW l, NEW m, NEW page, NEW c, NEW d, NEW i, i.data \in Nat, SameLocal(l, m)
  PROVE  SameLocal(LocalOf(c, page, l, i), LocalOf(d, page, m, i))
<1> DEFINE x == LocalOf(c, page, l, i)
           y == LocalOf(d, page, m, i)
<1> SUFFICES SameLocal(x, y)
  OBVIOUS
<1>1. /\ Len(l.usages) \in Nat /\ Len(m.usages) = Len(l.usages)
      /\ l.min \in Nat /\ m.min = l.min /\ l.branch = m.branch /\ l.depth = m.depth
  BY SeqShape DEF SameLocal, SameUsages, IsLocal
<1>2. UData(i) \in Nat /\ MaxUsages \in Nat
  BY ParserAssumption DEF UData
<1>3. BeyondIn(l, i) = BeyondIn(m, i) /\ LastIn(l, i) = LastIn(m, i) /\ LastIn(l, i) \in Int
  BY <1>1, <1>2 DEF BeyondIn, LastIn
<1>4. BadUsageIn(l, i) = BadUsageIn(m, i)
  BY <1>1, <1>3 DEF BadUsageIn
<1>5. \A u, size : /\ DOMAIN UsageIn(c, page, u, size) = {"hid", "size", "coll"}
                   /\ DOMAIN UsageIn(d, page, u, size) = {"hid", "size", "coll"}
                   /\ UsageIn(c, page, u, size).hid = UsageIn(d, page, u, size).hid
                   /\ UsageIn(c, page, u, size).size = UsageIn(d, page, u, size).size
  BY DEF UsageIn
<1>6. CASE BadUsageIn(l, i)
  <2>1. x = l /\ y = m
    BY <1>4, <1>6 DEF LocalOf
  <2> QED
    BY <2>1
<1>7. CASE ~BadUsageIn(l, i)
  <2>1. CASE i.tag = "delimiter" /\ UData(i) # 0
    <3>1. /\ x = [l EXCEPT !.depth = @ + 1, !.branch = @ + 1]
          /\ y = [m EXCEPT !.depth = @ + 1, !.branch = @ + 1]
      BY <1>4, <1>7, <2>1 DEF LocalOf
    <3> HIDE DEF x, y
    <3> QED
      BY <3>1 DEF SameLocal, IsLocal
  <2>2. CASE i.tag = "delimiter" /\ UData(i) = 0
    <3>1. x = [l EXCEPT !.depth = @ - 1] /\ y = [m EXCEPT !.depth = @ - 1]
      BY <1>4, <1>7, <2>2 DEF LocalOf
    <3> HIDE DEF x, y
    <3> QED
      BY <3>1 DEF SameLocal, IsLocal
  <2>3. CASE i.tag = "usage" /\ ~(l.branch > 1)
    <3> DEFINE u == UsageIn(c, page, UData(i), i.size)
               v == UsageIn(d, page, UData(i), i.size)
    <3>1. x = [l EXCEPT !.usages = Append(@, u)] /\ y = [m EXCEPT !.usages = Append(@, v)]
      BY <1>1, <1>4, <1>7, <2>3 DEF LocalOf
    <3>2. /\ DOMAIN u = {"hid", "size", "coll"} /\ DOMAIN v = {"hid", "size", "coll"}
          /\ u.hid = v.hid /\ u.size = v.size
      BY <1>5
    <3> HIDE DEF x, y, u, v
    <3>3. SameUsages(Append(l.usages, u), Append(m.usages, v))
      BY <3>2, SameAppended DEF SameLocal
    <3> QED
      BY <3>1, <3>3 DEF SameLocal, IsLocal
  <2>4. CASE i.tag = "usage_min" /\ ~(l.branch > 1)
    <3>1. x = [l EXCEPT !.min = UData(i)] /\ y = [m EXCEPT !.min = UData(i)]
      BY <1>1, <1>4, <1>7, <2>4 DEF LocalOf
    <3> HIDE DEF x, y
    <3> QED
      BY <1>2, <3>1 DEF SameLocal, IsLocal
  <2>5. CASE i.tag = "usage_max" /\ ~(l.branch > 1)
    <3> DEFINE r == RangeIn(c, page, l, i)
               s == RangeIn(d, page, m, i)
               last == LastIn(l, i) - l.min + 1
               n == IF last < 0 THEN 0 ELSE last
    <3>1. x = [l EXCEPT !.usages = @ \o r] /\ y = [m EXCEPT !.usages = @ \o s]
      BY <1>1, <1>4, <1>7, <2>5 DEF LocalOf
    <3>2. n \in Nat /\ 1..last = 1..n
      BY <1>1, <1>3
    <3>3. /\ r = [k \in 1..n |-> UsageIn(c, page, l.min + k - 1, i.size)]
          /\ s = [k \in 1..n |-> UsageIn(d, page, l.min + k - 1, i.size)]
      BY <1>1, <1>3, <3>2 DEF RangeIn
    <3>4. r = [k \in 1..n |-> r[k]] /\ s = [k \in 1..n |-> s[k]]
      BY <3>3
    <3> HIDE DEF x, y, r, s, n, last
    <3>5. /\ IsSeq(r) /\ Len(r) = n /\ IsSeq(s) /\ Len(s) = n
      BY <3>2, <3>4, SeqMade
    <3>6. SameUsages(r, s)
      BY <1>5, <3>3, <3>5 DEF SameUsages
    <3>7. SameUsages(l.usages \o r, m.usages \o s)
      BY <3>6, SameJoined DEF SameLocal
    <3> QED
      BY <3>1, <3>7 DEF SameLocal, IsLocal
  <2>6. CASE ~(\/ i.tag = "delimiter"
               \/ i.tag \in {"usage", "usage_min", "usage_max"} /\ ~(l.branch > 1))
    <3>1. x = l /\ y = m
      BY <1>1, <1>4, <1>7, <2>6 DEF LocalOf
    <3> QED
      BY <3>1
  <2> QED
    BY <2>1, <2>2, <2>3, <2>4, <2>5, <2>6
<1> QED
  BY <1>6, <1>7

-----------------------------------------------------------------------------
(* The states of a reading, one before each item, and what it has met.     *)

Follows(x, i, y) ==
  /\ i.type = "main" => y.g = x.g /\ y.s = x.s /\ y.l = Local0
  /\ i.type = "global" => y.g = GlobalOf(x.g, x.s, i) /\ y.s = StackOf(x.g, x.s, i) /\ y.l = x.l
  /\ i.type = "local" => y.g = x.g /\ y.s = x.s /\ y.l = LocalOf(1, x.g.page, x.l, i)
  /\ i.type \in {"reserved", "long"} => y.g = x.g /\ y.s = x.s /\ y.l = x.l
IsRead(d, T, n) ==
  /\ n \in 1..Len(d) + 1
  /\ T[1].g = Global0 /\ T[1].s = <<>> /\ T[1].l = Local0
  /\ \A k \in 1..n - 1 : Follows(T[k], d[k], T[k + 1])

\* A main item for a contact identifier, or for the blob or the status.
Marked(x, i, kind) ==
  /\ i.type = "main" /\ i.tag = kind
  /\ \/ kind = "input" /\ ~Constant(i) /\ ContactId \in HidsIn(x.g.page, x.l)
     \/ /\ kind = "feature" /\ x.g.size = 8
        /\ \/ Status \in HidsIn(x.g.page, x.l) /\ x.g.count = 1
           \/ Blob \in HidsIn(x.g.page, x.l) /\ x.g.count = 256
Found(d, T, n, kind) == \E k \in 1..n - 1 : Marked(T[k], d[k], kind)

\* A reading goes on to the next item.
Longer(T, n, y) == [k \in 1..n + 1 |-> IF k = n + 1 THEN y ELSE T[k]]
LEMMA ReadOn ==
  ASSUME NEW d, IsSeq(d), NEW T, NEW n, n <= Len(d), IsRead(d, T, n),
         NEW y, Follows(T[n], d[n], y)
  PROVE  /\ IsRead(d, Longer(T, n, y), n + 1) /\ Longer(T, n, y)[n + 1] = y
         /\ \A k \in 1..n : Longer(T, n, y)[k] = T[k]
<1> DEFINE S == Longer(T, n, y)
<1>1. Len(d) \in Nat /\ n \in Nat /\ n >= 1
  BY SeqShape DEF IsRead
<1>2. S[n + 1] = y /\ \A k \in 1..n : S[k] = T[k]
  BY <1>1 DEF Longer
<1> HIDE DEF S
<1>3. n + 1 \in 1..Len(d) + 1 /\ 1 \in 1..n
  BY <1>1
<1>4. ASSUME NEW k \in 1..n + 1 - 1
      PROVE  Follows(S[k], d[k], S[k + 1])
  <2>1. CASE k = n
    BY <1>1, <1>2, <2>1
  <2>2. CASE k \in 1..n - 1
    <3>1. k \in 1..n /\ k + 1 \in 1..n
      BY <1>1, <2>2
    <3> QED
      BY <1>2, <2>2, <3>1 DEF IsRead
  <2> QED
    BY <1>1, <2>1, <2>2
<1>5. IsRead(d, S, n + 1)
  BY <1>2, <1>3, <1>4 DEF IsRead
<1> QED
  BY <1>2, <1>5 DEF S

\* It has met what it had, and the item.
LEMMA FoundOn ==
  ASSUME NEW d, NEW T, NEW S, NEW n \in Nat \ {0}, NEW kind, \A k \in 1..n : S[k] = T[k]
  PROVE  Found(d, S, n + 1, kind) <=> Found(d, T, n, kind) \/ Marked(T[n], d[n], kind)
<1>1. \A k : k \in 1..n + 1 - 1 <=> k \in 1..n - 1 \/ k = n
  OBVIOUS
<1>2. n \in 1..n /\ \A k \in 1..n - 1 : k \in 1..n
  OBVIOUS
<1> QED
  BY <1>1, <1>2 DEF Found

\* Before the first item there is nothing.
LEMMA FoundNothing ==
  ASSUME NEW d, NEW T, NEW kind
  PROVE  ~Found(d, T, 1, kind)
BY DEF Found

\* What the scan has chosen so far, and what it chooses.
Scanning(T) ==
  /\ group \in {"generic", "multitouch", "sensor_hub", "vivaldi"}
  /\ group = "multitouch" => Found(rdesc, T, at, "input")
  /\ Found(rdesc, T, at, "input") => group # "generic"
  /\ "win8" \in flags <=> Found(rdesc, T, at, "feature")
Chosen(T, n) ==
  (vendor # "wacom" /\ group \notin {"sensor_hub", "vivaldi"}) =>
    /\ group \in {"multitouch", "multitouch_win8"} <=> Found(rdesc, T, n, "input")
    /\ group = "multitouch_win8"
         <=> Found(rdesc, T, n, "input") /\ Found(rdesc, T, n, "feature")
ScanReads(T) ==
  /\ IsRead(rdesc, T, at)
  /\ T[at].g = global /\ T[at].s = stack /\ T[at].l = local
  /\ Scanning(T)

\* A main item decides, whatever it is.
LEMMA ScanMarks ==
  ASSUME NEW T, ScanReads(T), at \in Nat \ {0}, ScanMain,
         NEW S, \A k \in 1..at : S[k] = T[k]
  PROVE  Scanning(S)'
<1>1. /\ Fetched("scan", "main") /\ at' = at + 1 /\ UNCHANGED rdesc
      /\ Item = rdesc[at]
  BY DEF ScanMain, Advance, Fetched, Item
<1>2. \A kind : Found(rdesc, S, at + 1, kind)
                  <=> Found(rdesc, T, at, kind) \/ Marked(T[at], rdesc[at], kind)
  BY FoundOn
<1>3. Hids = HidsIn(global.page, local)
  BY ParserIsIn
<1>4. Marked(T[at], rdesc[at], "input")
        <=> Item.tag = "input" /\ ~Constant(Item) /\ ContactId \in Hids
  BY <1>1, <1>3 DEF ScanReads, Marked, Fetched
<1>5. Marked(T[at], rdesc[at], "feature")
        <=> /\ Item.tag = "feature" /\ global.size = 8
            /\ (Status \in Hids /\ global.count = 1) \/ (Blob \in Hids /\ global.count = 256)
  BY <1>1, <1>3 DEF ScanReads, Marked, Fetched
<1> DEFINE F(kind) == Found(rdesc, T, at, kind)
           G(kind) == Found(rdesc, S, at + 1, kind)
<1>6. /\ group \in {"generic", "multitouch", "sensor_hub", "vivaldi"}
      /\ group = "multitouch" => F("input")
      /\ F("input") => group # "generic"
      /\ "win8" \in flags <=> F("feature")
  BY DEF ScanReads, Scanning
<1>7. Scanning(S)' <=> /\ group' \in {"generic", "multitouch", "sensor_hub", "vivaldi"}
                       /\ group' = "multitouch" => G("input")
                       /\ G("input") => group' # "generic"
                       /\ "win8" \in flags' <=> G("feature")
  BY <1>1 DEF Scanning
<1> HIDE DEF F, G
<1>8. /\ G("input") <=> F("input") \/ (Item.tag = "input" /\ ~Constant(Item) /\ ContactId \in Hids)
      /\ G("feature") <=> F("feature") \/
           /\ Item.tag = "feature" /\ global.size = 8
           /\ (Status \in Hids /\ global.count = 1) \/ (Blob \in Hids /\ global.count = 256)
  BY <1>2, <1>4, <1>5 DEF F, G
<1>9. CASE Item.tag = "collection" /\ ScanCollection(Item)
  <2>1. G("input") <=> F("input")
    BY <1>8, <1>9
  <2>2. G("feature") <=> F("feature")
    BY <1>8, <1>9
  <2>3. group' \in {"vivaldi", "sensor_hub", group}
    BY <1>9 DEF ScanCollection
  <2>4. "win8" \in flags' <=> "win8" \in flags
    BY <1>9 DEF ScanCollection
  <2> QED
    BY <1>6, <1>7, <2>1, <2>2, <2>3, <2>4
<1>10. CASE Item.tag = "input" /\ ScanInput(Item)
  <2>1. G("feature") <=> F("feature")
    BY <1>8, <1>10
  <2>2. UNCHANGED flags /\ group' = IF ~Constant(Item) /\ ContactId \in Hids
                                    THEN "multitouch" ELSE group
    BY <1>10 DEF ScanInput
  <2> QED
    BY <1>6, <1>7, <1>8, <1>10, <2>1, <2>2
<1>11. CASE Item.tag = "feature" /\ ScanFeature
  <2>1. G("input") <=> F("input")
    BY <1>8, <1>11
  <2>2. UNCHANGED group
    BY <1>11 DEF ScanFeature
  <2>3. "win8" \in flags' <=> "win8" \in flags \/
          /\ global.size = 8
          /\ (Status \in Hids /\ global.count = 1) \/ (Blob \in Hids /\ global.count = 256)
    BY <1>11 DEF ScanFeature
  <2> QED
    BY <1>6, <1>7, <1>8, <1>11, <2>1, <2>2, <2>3
<1>12. CASE Item.tag \notin {"collection", "input", "feature"} /\ UNCHANGED scanVars
  <2>1. /\ G("input") <=> F("input")
        /\ G("feature") <=> F("feature")
    BY <1>8, <1>12
  <2> QED
    BY <1>6, <1>7, <1>12, <2>1 DEF scanVars
<1> QED
  BY <1>9, <1>10, <1>11, <1>12 DEF ScanMain

\* The scan reads one item.
LEMMA ScanReadsOn ==
  ASSUME NEW T, IInv, ScanReads(T), open = <<>>,
         ScanMain \/ ScanGlobal \/ ScanLocal \/ ScanReserved
  PROVE  \E S : ScanReads(S)'
<1> DEFINE y == [g |-> global', s |-> stack', l |-> local']
<1>1. /\ at' = at + 1 /\ UNCHANGED rdesc /\ at <= Len(rdesc) /\ Item = rdesc[at]
      /\ IsSeq(rdesc) /\ at \in Nat \ {0}
  BY DEF ScanMain, ScanGlobal, ScanLocal, ScanReserved, Advance, Fetched, Item, IInv, ItemsRead
<1>2. y.g = global' /\ y.s = stack' /\ y.l = local'
  OBVIOUS
<1> HIDE DEF y
<1>3. T[at].g = global /\ T[at].s = stack /\ T[at].l = local
  BY DEF ScanReads
<1>4. Follows(T[at], rdesc[at], y)
  <2>1. CASE ScanMain
    BY <1>1, <1>2, <1>3, <2>1 DEF ScanMain, Fetched, Follows
  <2>2. CASE ScanGlobal
    <3>1. global' = GlobalOf(global, stack, Item) /\ stack' = StackOf(global, stack, Item)
      BY <2>2, ParserIsIn DEF ScanGlobal, GlobalItem
    <3> QED
      BY <1>1, <1>2, <1>3, <2>2, <3>1 DEF ScanGlobal, GlobalItem, Fetched, Follows
  <2>3. CASE ScanLocal
    <3>1. local' = LocalOf(1, global.page, local, Item)
      BY <2>3, ParserIsIn DEF ScanLocal, LocalItem, Innermost
    <3> QED
      BY <1>1, <1>2, <1>3, <2>3, <3>1 DEF ScanLocal, LocalItem, Fetched, Follows
  <2>4. CASE ScanReserved
    BY <1>1, <1>2, <1>3, <2>4 DEF ScanReserved, Fetched, Follows, parserVars
  <2> QED
    BY <2>1, <2>2, <2>3, <2>4
<1>5. IsRead(rdesc, T, at)
  BY DEF ScanReads
<1>6. PICK S : IsRead(rdesc, S, at + 1) /\ S[at + 1] = y /\ \A k \in 1..at : S[k] = T[k]
  <2>1. /\ IsRead(rdesc, Longer(T, at, y), at + 1) /\ Longer(T, at, y)[at + 1] = y
        /\ \A k \in 1..at : Longer(T, at, y)[k] = T[k]
    BY <1>1, <1>4, <1>5, ReadOn
  <2> QED
    BY <2>1
<1>7. Scanning(S)'
  <2>1. CASE ScanMain
    BY <1>1, <1>6, <2>1, ScanMarks
  <2>2. CASE ScanGlobal \/ ScanLocal \/ ScanReserved
    <3>1. UNCHANGED <<group, flags>> /\ rdesc[at].type # "main"
      BY <1>1, <2>2 DEF ScanGlobal, ScanLocal, ScanReserved, Fetched, scanVars
    <3>2. \A kind : ~Marked(T[at], rdesc[at], kind)
      BY <3>1 DEF Marked
    <3>3. \A kind : Found(rdesc, S, at + 1, kind) <=> Found(rdesc, T, at, kind)
      BY <1>1, <1>6, <3>2, FoundOn
    <3>4. Scanning(T)
      BY DEF ScanReads
    <3> QED
      BY <1>1, <3>1, <3>3, <3>4 DEF Scanning
  <2> QED
    BY <2>1, <2>2
<1>8. ScanReads(S)'
  BY <1>1, <1>2, <1>6, <1>7 DEF ScanReads
<1> QED
  BY <1>8

-----------------------------------------------------------------------------
(* What the parser builds is what the scan has met.                        *)

FitsAs(kind, f) ==
  \/ kind = "input" /\ ~f.constant /\ Uses(f, ContactId)
  \/ /\ kind = "feature" /\ f.size = 8
     /\ (Uses(f, Status) /\ f.count = 1) \/ (Uses(f, Blob) /\ f.count = 256)
HasIn(rs, kind) ==
  \E r \in DOMAIN rs :
    rs[r].type = kind /\ \E k \in DOMAIN rs[r].fields : FitsAs(kind, rs[r].fields[k])
FullIn(rs) == \E r \in DOMAIN rs : Len(rs[r].fields) = MaxFields
Built(d, rs, T, n) ==
  \A kind \in {"input", "feature"} :
    /\ HasIn(rs, kind) => Found(d, T, n, kind)
    /\ Found(d, T, n, kind) => HasIn(rs, kind) \/ FullIn(rs)

\* These are the fields the property is about.
LEMMA FieldsSought ==
  /\ IsMultitouch <=> HasIn(reports, "input")
  /\ IsCertified <=> HasIn(reports, "feature")
  /\ Full <=> FullIn(reports)
<1>1. IsMultitouch <=> HasIn(reports, "input")
  BY DEF IsMultitouch, HasField, HasIn, FitsAs, Range
<1>2. IsCertified <=> HasIn(reports, "feature")
  BY DEF IsCertified, HasField, HasIn, FitsAs, Range
<1>3. Full <=> FullIn(reports)
  BY DEF Full, FullIn, Range
<1> QED
  BY <1>1, <1>2, <1>3

\* Reports of the same layout have the same of them.
LEMMA SameBuilt ==
  ASSUME ReportsSound, SameReports
  PROVE  /\ \A kind : HasIn(reports', kind) <=> HasIn(reports, kind)
         /\ FullIn(reports') <=> FullIn(reports)
<1>1. DOMAIN reports' = DOMAIN reports
  BY DEF SameReports
<1>2. ASSUME NEW r \in DOMAIN reports
      PROVE  /\ reports'[r].type = reports[r].type
             /\ DOMAIN reports'[r].fields = DOMAIN reports[r].fields
             /\ Len(reports'[r].fields) = Len(reports[r].fields)
             /\ \A k \in DOMAIN reports[r].fields :
                  SameField(reports[r].fields[k], reports'[r].fields[k])
  <2>1. SameReport(reports[r], reports'[r]) /\ IsSeq(reports[r].fields)
    BY DEF SameReports, ReportsSound, IsReport
  <2> QED
    BY <2>1, Redefined DEF SameReport
<1>3. ASSUME NEW f, NEW g, SameField(f, g), NEW kind
      PROVE  FitsAs(kind, g) <=> FitsAs(kind, f)
  <2>1. \A h : Uses(g, h) <=> Uses(f, h)
    BY <1>3 DEF SameField, Uses, Range
  <2> QED
    BY <1>3, <2>1 DEF SameField, FitsAs
<1>4. \A kind : HasIn(reports', kind) <=> HasIn(reports, kind)
  BY <1>1, <1>2, <1>3 DEF HasIn
<1>5. FullIn(reports') <=> FullIn(reports)
  BY <1>1, <1>2 DEF FullIn
<1> QED
  BY <1>4, <1>5

\* The field of a main item has the usages of the item and no other.
LEMMA FieldUses ==
  ASSUME NEW i, NEW offset, LocalSound, GlobalsSound, Used # 0
  PROVE  LET f == NewField(i, offset) IN
         /\ f.constant = Constant(i) /\ f.size = global.size /\ f.count = global.count
         /\ \A h : Uses(f, h) <=> h \in Hids
<1> DEFINE f == NewField(i, offset)
           m == Max({Used, global.count})
<1>1. Used \in Nat /\ global.count \in Nat /\ DOMAIN local.usages = 1..Used
  BY SeqShape DEF LocalSound, GlobalsSound, IsGlobal, Used
<1>2. m \in Nat /\ m >= Used
  BY <1>1, Extrema
<1>3. f.constant = Constant(i) /\ f.size = global.size /\ f.count = global.count
  BY DEF NewField
<1>4. /\ DOMAIN f.usages = 1..m
      /\ \A k \in 1..m : f.usages[k].hid = Concatenated[Min({k, Used})].hid
  BY DEF NewField
<1>5. ASSUME NEW k \in 1..m
      PROVE  Min({k, Used}) \in 1..Used
  <2>1. k \in Nat /\ k >= 1 /\ Used >= 1
    BY <1>1, <1>2
  <2> QED
    BY <1>1, <2>1, Extrema
<1>6. ASSUME NEW k \in 1..Used
      PROVE  k \in 1..m /\ Min({k, Used}) = k
  <2>1. k \in Nat /\ k <= Used
    BY <1>1
  <2>2. Min({k, Used}) \in {k, Used} /\ Min({k, Used}) <= k
    BY <1>1, <2>1, Extrema
  <2> QED
    BY <1>1, <1>2, <2>1, <2>2
<1> HIDE DEF f, m
<1>7. \A h : h \in Hids <=> \E k \in 1..Used : h = Concatenated[k].hid
  BY <1>1 DEF Hids
<1>8. \A h : Uses(f, h) <=> \E k \in 1..m : f.usages[k].hid = h
  BY <1>4 DEF Uses, Range
<1>9. ASSUME NEW h, Uses(f, h) PROVE h \in Hids
  <2>1. PICK k \in 1..m : f.usages[k].hid = h
    BY <1>8, <1>9
  <2>2. Min({k, Used}) \in 1..Used /\ h = Concatenated[Min({k, Used})].hid
    BY <1>4, <1>5, <2>1
  <2> QED
    BY <1>7, <2>2
<1>10. ASSUME NEW h, h \in Hids PROVE Uses(f, h)
  <2>1. PICK k \in 1..Used : h = Concatenated[k].hid
    BY <1>7, <1>10
  <2>2. k \in 1..m /\ f.usages[k].hid = h
    BY <1>4, <1>6, <2>1
  <2> QED
    BY <1>8, <2>2
<1> QED
  BY <1>3, <1>9, <1>10 DEF f

\* Registering adds no field.
LEMMA RegisteredHas ==
  ASSUME NEW type, ReportsSound
  PROVE  /\ \A kind : HasIn(Registered(type), kind) <=> HasIn(reports, kind)
         /\ FullIn(reports) => FullIn(Registered(type))
<1>1. CASE ReportOf(type, global.id) # {}
  BY <1>1 DEF Registered
<1>2. CASE ReportOf(type, global.id) = {}
  <2> DEFINE with == Registered(type)
             n == Len(reports)
             new == [type |-> type, id |-> global.id, size |-> 0,
                     application |-> LookupCollection(1), fields |-> <<>>]
  <2>1. with = Append(reports, new)
    BY <1>2 DEF Registered
  <2>2. IsSeq(reports) /\ n \in Nat /\ DOMAIN reports = 1..n
    BY SeqShape DEF ReportsSound
  <2>3. /\ DOMAIN with = 1..n + 1 /\ with[n + 1] = new
        /\ \A r \in 1..n : with[r] = reports[r]
    BY <2>1, <2>2, Appended, SeqShape
  <2>4. DOMAIN new.fields = {}
    BY EmptyIsSeq
  <2> HIDE DEF with, n, new
  <2>5. \A r : r \in 1..n + 1 <=> r \in 1..n \/ r = n + 1
    BY <2>2
  <2>6. \A kind : HasIn(with, kind) <=> HasIn(reports, kind)
    BY <2>2, <2>3, <2>4, <2>5 DEF HasIn
  <2>7. FullIn(reports) => FullIn(with)
    BY <2>2, <2>3, <2>5 DEF FullIn
  <2> QED
    BY <2>6, <2>7 DEF with
<1> QED
  BY <1>1, <1>2

\* A field more in one report.
LEMMA OneMore ==
  ASSUME NEW rs, NEW k \in DOMAIN rs, NEW f, NEW new, IsSeq(rs[k].fields),
         new.type = rs[k].type,
         \/ new.fields = rs[k].fields
         \/ new.fields = Append(rs[k].fields, f) /\ Len(rs[k].fields) # MaxFields,
         NEW ss, ss = [rs EXCEPT ![k] = new]
  PROVE  /\ \A kind : HasIn(rs, kind) => HasIn(ss, kind)
         /\ \A kind : HasIn(ss, kind) =>
              HasIn(rs, kind) \/ (/\ new.fields # rs[k].fields
                                  /\ rs[k].type = kind /\ FitsAs(kind, f))
         /\ \A kind : (new.fields # rs[k].fields /\ rs[k].type = kind /\ FitsAs(kind, f))
                        => HasIn(ss, kind)
         /\ FullIn(rs) => FullIn(ss)
<1> DEFINE n == Len(rs[k].fields)
<1>1. n \in Nat /\ DOMAIN rs[k].fields = 1..n
  BY SeqShape
<1>2. DOMAIN ss = DOMAIN rs /\ ss[k] = new /\ \A r \in DOMAIN rs : r # k => ss[r] = rs[r]
  OBVIOUS
<1>3. CASE new.fields = rs[k].fields
  <2>1. \A r \in DOMAIN rs : ss[r].type = rs[r].type /\ ss[r].fields = rs[r].fields
    BY <1>2, <1>3
  <2> QED
    BY <1>2, <1>3, <2>1 DEF HasIn, FullIn
<1>4. CASE new.fields # rs[k].fields
  <2>1. new.fields = Append(rs[k].fields, f) /\ n # MaxFields
    BY <1>4
  <2>2. /\ DOMAIN new.fields = 1..n + 1 /\ new.fields[n + 1] = f
        /\ \A j \in 1..n : new.fields[j] = rs[k].fields[j]
    BY <1>1, <2>1, Appended, SeqShape
  <2>3. \A j : j \in 1..n + 1 <=> j \in 1..n \/ j = n + 1
    BY <1>1
  <2> HIDE DEF n
  <2>4. \A kind : (\E j \in DOMAIN new.fields : FitsAs(kind, new.fields[j]))
                    <=> (\E j \in DOMAIN rs[k].fields : FitsAs(kind, rs[k].fields[j]))
                          \/ FitsAs(kind, f)
    BY <1>1, <2>2, <2>3
  <2>5. ASSUME NEW kind, HasIn(rs, kind) PROVE HasIn(ss, kind)
    BY <1>2, <2>4, <2>5 DEF HasIn
  <2>6. ASSUME NEW kind, HasIn(ss, kind), ~HasIn(rs, kind)
        PROVE  rs[k].type = kind /\ FitsAs(kind, f)
    BY <1>2, <2>4, <2>6 DEF HasIn
  <2>7. ASSUME NEW kind, rs[k].type = kind, FitsAs(kind, f)
        PROVE  HasIn(ss, kind)
    BY <1>2, <2>4, <2>7 DEF HasIn
  <2>8. ASSUME FullIn(rs) PROVE FullIn(ss)
    BY <1>2, <2>1, <2>8 DEF FullIn, n
  <2> QED
    BY <1>4, <2>5, <2>6, <2>7, <2>8
<1> QED
  BY <1>3, <1>4

\* The parser is where the scan was at this item.
ParseReads(T, n) ==
  /\ at \in 1..n
  /\ T[at].g = global /\ T[at].s = stack /\ SameLocal(local, T[at].l)
  /\ Built(rdesc, reports, T, at)

\* A main item adds what the scan has met there.
LEMMA FieldAdds ==
  ASSUME NEW T, NEW n, IInv, phase = "parse", ParseReads(T, n), NEW type, AddField(type), ~Rejected
  PROVE  /\ \A kind \in {"input", "feature"} :
              /\ HasIn(reports', kind) => HasIn(reports, kind) \/ Marked(T[at], rdesc[at], kind)
              /\ HasIn(reports, kind) => HasIn(reports', kind)
              /\ Marked(T[at], rdesc[at], kind) => HasIn(reports', kind) \/ FullIn(reports')
         /\ FullIn(reports) => FullIn(reports')
<1> DEFINE with == Registered(type)
           k == CHOOSE r \in DOMAIN with : with[r].type = type /\ with[r].id = global.id
           grown == Grown(with[k])
           f == NewField(Item, with[k].size)
           new == IF Used = 0 THEN grown ELSE WithField(grown, f)
<1>1. ReportsSound /\ LocalSound /\ GlobalsSound
  BY DEF IInv
<1>2. /\ k \in DOMAIN with /\ IsReport(with[k])
      /\ with[k].type = type
  BY <1>1, Registering
<1>3. reports' = [with EXCEPT ![k] = new] /\ Fetched("parse", "main") /\ Item.tag = type
  BY DEF AddField
<1>4. /\ \A kind : HasIn(with, kind) <=> HasIn(reports, kind)
      /\ FullIn(reports) => FullIn(with)
  BY <1>1, RegisteredHas
<1> HIDE DEF with, k
<1>5. /\ IsSeq(with[k].fields) /\ grown.fields = with[k].fields /\ grown.type = type
      /\ DOMAIN grown = DOMAIN with[k] /\ "fields" \in DOMAIN grown
  BY <1>2 DEF Grown, IsReport
<1> HIDE DEF grown
<1>6. /\ new.type = with[k].type
      /\ \/ new.fields = with[k].fields
         \/ new.fields = Append(with[k].fields, f) /\ Len(with[k].fields) # MaxFields
  BY <1>2, <1>5 DEF WithField
<1>7. /\ \A kind : HasIn(with, kind) => HasIn(reports', kind)
      /\ \A kind : HasIn(reports', kind) =>
           HasIn(with, kind) \/ (/\ new.fields # with[k].fields
                                 /\ with[k].type = kind /\ FitsAs(kind, f))
      /\ \A kind : (new.fields # with[k].fields /\ with[k].type = kind /\ FitsAs(kind, f))
                     => HasIn(reports', kind)
      /\ FullIn(with) => FullIn(reports')
  <2> HIDE DEF f, new
  <2>1. k \in DOMAIN with /\ IsSeq(with[k].fields)
    BY <1>2, <1>5
  <2>2. CASE new.fields = with[k].fields
    BY <1>3, <1>6, <2>1, <2>2, OneMore
  <2>3. CASE new.fields = Append(with[k].fields, f) /\ Len(with[k].fields) # MaxFields
    BY <1>3, <1>6, <2>1, <2>3, OneMore
  <2> QED
    BY <1>6, <2>2, <2>3
<1>8. rdesc[at] = Item /\ Item.type = "main"
  BY <1>3 DEF Fetched, Item
<1>9. \A kind \in {"input", "feature"} :
        Used # 0 /\ type = kind => (FitsAs(kind, f) <=> Marked(T[at], rdesc[at], kind))
  <2>1. HidsIn(T[at].g.page, T[at].l) = Hids
    BY ParserIsIn, SameHids DEF ParseReads
  <2>2. ASSUME Used # 0
        PROVE  /\ f.constant = Constant(Item) /\ f.size = global.size /\ f.count = global.count
               /\ \A h : Uses(f, h) <=> h \in Hids
    BY <1>1, <2>2, FieldUses
  <2>3. T[at].g = global
    BY DEF ParseReads
  <2> HIDE DEF f
  <2> QED
    BY <1>3, <1>8, <2>1, <2>2, <2>3 DEF FitsAs, Marked
<1>10. \A kind : Marked(T[at], rdesc[at], kind) => Used # 0 /\ type = kind
  <2>1. HidsIn(T[at].g.page, T[at].l) = Hids
    BY ParserIsIn, SameHids DEF ParseReads
  <2>2. Used = 0 => Hids = {}
    BY <1>1, EmptySeq, SeqShape DEF LocalSound, Used, Hids
  <2> QED
    BY <1>3, <1>8, <2>1, <2>2 DEF Marked
<1>11. ASSUME NEW kind \in {"input", "feature"}, Marked(T[at], rdesc[at], kind)
       PROVE  HasIn(reports', kind) \/ FullIn(reports')
  <2>1. Used # 0 /\ type = kind /\ FitsAs(kind, f)
    BY <1>9, <1>10, <1>11
  <2>2. CASE Len(with[k].fields) = MaxFields
    BY <1>2, <1>7, <2>2 DEF FullIn
  <2>3. CASE Len(with[k].fields) # MaxFields
    <3>1. new.fields = Append(with[k].fields, f)
      BY <1>5, <2>1, <2>3 DEF WithField
    <3>2. Len(Append(with[k].fields, f)) # Len(with[k].fields)
      BY <1>5, Appended, SeqShape
    <3> QED
      BY <1>2, <1>7, <2>1, <3>1, <3>2
  <2> QED
    BY <2>2, <2>3
<1>12. Used = 0 => new.fields = with[k].fields
  BY <1>5
<1>13. ASSUME NEW kind \in {"input", "feature"}, HasIn(reports', kind), ~HasIn(with, kind)
       PROVE  Marked(T[at], rdesc[at], kind)
  BY <1>2, <1>7, <1>9, <1>12, <1>13
<1> HIDE DEF f, new
<1> QED
  BY <1>4, <1>7, <1>11, <1>13

\* The parser reads one item, and is still where the scan was.
LEMMA ParseReadsOn ==
  ASSUME NEW T, NEW n, IInv, IsRead(rdesc, T, n), ParseReads(T, n), ~Rejected,
         n <= Len(rdesc) => rdesc[n].type = "truncated",
         \/ ParseGlobal \/ ParseLocal \/ ParseReserved \/ ParseLong
         \/ BeginCollection \/ EndCollection \/ OtherMain
         \/ \E type \in {"input", "output", "feature"} : AddField(type)
  PROVE  ParseReads(T, n)' /\ phase' = "parse" /\ UNCHANGED <<rdesc, vendor, scanVars>>
<1>1. /\ at' = at + 1 /\ phase = "parse" /\ phase' = "parse"
      /\ UNCHANGED <<rdesc, vendor, scanVars>>
      /\ at <= Len(rdesc) /\ Item = rdesc[at]
      /\ Item.type \in {"main", "global", "local", "reserved"}
  BY DEF ParseGlobal, ParseLocal, ParseReserved, ParseLong, BeginCollection, EndCollection,
         OtherMain, AddField, MainDone, Advance, Fetched, Item
<1>2. Len(rdesc) \in Nat /\ n \in Nat /\ at \in Nat \ {0} /\ at \in 1..n /\ Item.data \in Nat
  BY <1>1, SeqShape DEF IInv, ItemsRead, IsRead, ParseReads
<1>3. at # n /\ at + 1 \in 1..n /\ at \in 1..n - 1
  <2>1. at # n
    BY <1>1
  <2> QED
    BY <1>2, <2>1
<1>4. Follows(T[at], Item, T[at + 1])
  BY <1>1, <1>3 DEF IsRead
<1>5. T[at].g = global /\ T[at].s = stack /\ SameLocal(local, T[at].l)
  BY DEF ParseReads
<1>6. SameLocal(Local0, Local0)
  BY SameClear
<1>7. T[at + 1].g = global' /\ T[at + 1].s = stack' /\ SameLocal(local', T[at + 1].l)
  <2>1. CASE ParseGlobal
    <3>1. /\ global' = GlobalOf(global, stack, Item) /\ stack' = StackOf(global, stack, Item)
          /\ UNCHANGED local /\ Item.type = "global"
      BY <2>1, ParserIsIn DEF ParseGlobal, GlobalItem, Fetched
    <3> QED
      BY <1>4, <1>5, <3>1 DEF Follows
  <2>2. CASE ParseLocal
    <3>1. /\ local' = LocalOf(Innermost, global.page, local, Item)
          /\ UNCHANGED <<global, stack>> /\ Item.type = "local"
      BY <2>2, ParserIsIn DEF ParseLocal, LocalItem, Fetched
    <3>2. SameLocal(local', LocalOf(1, global.page, T[at].l, Item))
      BY <1>2, <1>5, <3>1, SameAfter
    <3> QED
      BY <1>4, <1>5, <3>1, <3>2 DEF Follows
  <2>3. CASE ParseReserved
    BY <1>4, <1>5, <2>3 DEF ParseReserved, Fetched, Follows, parserVars
  <2>4. CASE ParseLong
    BY <2>4 DEF ParseLong
  <2>5. CASE \/ BeginCollection \/ EndCollection \/ OtherMain
             \/ \E type \in {"input", "output", "feature"} : AddField(type)
    <3>1. local' = Local0 /\ UNCHANGED <<global, stack>> /\ Item.type = "main"
      BY <2>5 DEF BeginCollection, EndCollection, OtherMain, AddField, MainDone, Fetched
    <3> QED
      BY <1>4, <1>5, <1>6, <3>1 DEF Follows
  <2> QED
    BY <2>1, <2>2, <2>3, <2>4, <2>5
<1>8. \A kind : Found(rdesc, T, at + 1, kind)
                  <=> Found(rdesc, T, at, kind) \/ Marked(T[at], rdesc[at], kind)
  BY <1>2, FoundOn
<1>9. Built(rdesc, reports, T, at)
  BY DEF ParseReads
<1>10. Built(rdesc, reports', T, at + 1)
  <2>1. CASE \E type \in {"input", "output", "feature"} : AddField(type)
    <3>1. PICK type : AddField(type)
      BY <2>1
    <3>2. /\ \A kind \in {"input", "feature"} :
               /\ HasIn(reports', kind) => HasIn(reports, kind) \/ Marked(T[at], rdesc[at], kind)
               /\ HasIn(reports, kind) => HasIn(reports', kind)
               /\ Marked(T[at], rdesc[at], kind) => HasIn(reports', kind) \/ FullIn(reports')
          /\ FullIn(reports) => FullIn(reports')
      BY <1>1, <3>1, FieldAdds
    <3> QED
      BY <1>8, <1>9, <3>2 DEF Built
  <2>2. CASE ParseGlobal \/ ParseLocal \/ ParseReserved \/ ParseLong \/ BeginCollection
               \/ EndCollection \/ OtherMain
    <3>1. UNCHANGED reports
      BY <2>2 DEF ParseGlobal, ParseLocal, ParseReserved, ParseLong, BeginCollection,
                  EndCollection, OtherMain, deviceVars
    <3>2. Item.type # "main" \/ Item.tag \notin {"input", "feature"}
      BY <2>2 DEF ParseGlobal, ParseLocal, ParseReserved, ParseLong, BeginCollection,
                  EndCollection, OtherMain, Fetched
    <3>3. \A kind \in {"input", "feature"} : ~Marked(T[at], rdesc[at], kind)
      BY <1>1, <3>2 DEF Marked
    <3> QED
      BY <1>8, <1>9, <3>1, <3>3 DEF Built
  <2> QED
    BY <2>1, <2>2
<1>11. ParseReads(T, n)'
  BY <1>1, <1>3, <1>7, <1>10 DEF ParseReads
<1> QED
  BY <1>1, <1>11

\* The scan ended at n, and the descriptor was built as far as the parser is.
Reads(T, n) ==
  /\ IsRead(rdesc, T, n) /\ (n <= Len(rdesc) => rdesc[n].type = "truncated")
  /\ Chosen(T, n)
  /\ phase = "parse" => ParseReads(T, n)
  /\ Open => Built(rdesc, reports, T, n)
BInv ==
  /\ phase \in {"scan", "parse", "parsed", "rejected", "ready"}
  /\ phase = "scan" => open = <<>> /\ reports = <<>> /\ \E T : ScanReads(T)
  /\ phase # "scan" => \E T, n : Reads(T, n)

\* The two agree then.
LEMMA AgreesIs == BInv => ScanAgrees
<1>1. ASSUME Open, NEW T, NEW n, Reads(T, n), ~Full
      PROVE  /\ IsMultitouch <=> Found(rdesc, T, n, "input")
             /\ IsCertified <=> Found(rdesc, T, n, "feature")
  BY <1>1, FieldsSought DEF Reads, Built
<1>2. ASSUME BInv, Open, ~Full, vendor # "wacom", group \notin {"sensor_hub", "vivaldi"}
      PROVE  /\ IsMultitouch <=> (group \in {"multitouch", "multitouch_win8"})
             /\ (IsMultitouch /\ IsCertified) <=> (group = "multitouch_win8")
  <2>1. PICK T, n : Reads(T, n)
    BY <1>2 DEF BInv, Open
  <2> QED
    BY <1>1, <1>2, <2>1 DEF Reads, Chosen
<1>3. IsMultitouch \in BOOLEAN /\ IsCertified \in BOOLEAN
  BY DEF IsMultitouch, IsCertified, HasField
<1> QED
  BY <1>2, <1>3 DEF ScanAgrees

\* A new parser is where the scan began.
LEMMA ParserStarts ==
  ASSUME NEW T, NEW n, IsRead(rdesc, T, n), Fresh("parse"), UNCHANGED rdesc, reports' = <<>>
  PROVE  ParseReads(T, n)' /\ phase' = "parse"
<1>1. SameLocal(Local0, Local0)
  BY SameClear
<1>2. Built(rdesc, <<>>, T, 1)
  <2>1. \A kind : ~HasIn(<<>>, kind)
    BY EmptyIsSeq DEF HasIn
  <2> QED
    BY <2>1, FoundNothing DEF Built
<1>3. 1 \in 1..n
  BY DEF IsRead
<1> QED
  BY <1>1, <1>2, <1>3 DEF IsRead, Fresh, ParseReads

\* Every step of the scan, and its end.
LEMMA ScanBuilds ==
  ASSUME IInv, BInv, ScanMain \/ ScanGlobal \/ ScanLocal \/ ScanReserved \/ ScanEnds
  PROVE  BInv'
<1>1. phase = "scan" /\ open = <<>> /\ reports = <<>>
  BY DEF ScanMain, ScanGlobal, ScanLocal, ScanReserved, ScanEnds, Fetched, Exhausted, BInv
<1>2. PICK T : ScanReads(T)
  BY <1>1 DEF BInv
<1>3. CASE ScanMain \/ ScanGlobal \/ ScanLocal \/ ScanReserved
  <2>1. \E S : ScanReads(S)'
    BY <1>1, <1>2, <1>3, ScanReadsOn
  <2>2. phase' = "scan" /\ UNCHANGED <<open, reports>>
    BY <1>1, <1>3 DEF ScanMain, ScanGlobal, ScanLocal, ScanReserved, Advance, GlobalItem,
                      LocalItem, parserVars, deviceVars
  <2> QED
    BY <1>1, <2>1, <2>2 DEF BInv
<1>4. CASE ScanEnds
  <2>1. /\ IsRead(rdesc, T, at) /\ Scanning(T)
        /\ at <= Len(rdesc) => rdesc[at].type = "truncated"
        /\ Fresh("parse") /\ UNCHANGED <<rdesc, vendor, flags, reports>>
    BY <1>2, <1>4 DEF ScanReads, ScanEnds, Exhausted, Item, deviceVars
  <2>2. PICK n : n = at
    OBVIOUS
  <2>3. Chosen(T, n)'
    <3>1. (vendor # "wacom" /\ group' \notin {"sensor_hub", "vivaldi"}) =>
            /\ group' \in {"multitouch", "multitouch_win8"} <=> group = "multitouch"
            /\ group' = "multitouch_win8" <=> group = "multitouch" /\ "win8" \in flags
            /\ group \in {"generic", "multitouch"}
      BY <1>4, <2>1 DEF ScanEnds, Scanning
    <3> QED
      BY <2>1, <2>2, <3>1 DEF Chosen, Scanning
  <2>4. ParseReads(T, n)' /\ phase' = "parse"
    BY <1>1, <2>1, <2>2, ParserStarts
  <2>5. Reads(T, n)'
    BY <2>1, <2>2, <2>3, <2>4 DEF Reads, Open
  <2> QED
    BY <2>4, <2>5 DEF BInv
<1> QED
  BY <1>3, <1>4

\* Where it accepts, it has read all that the scan had.
LEMMA ParserBuilds ==
  ASSUME IInv, BInv,
         \/ ParseGlobal \/ ParseLocal \/ ParseReserved \/ ParseLong
         \/ BeginCollection \/ EndCollection \/ OtherMain
         \/ \E type \in {"input", "output", "feature"} : AddField(type)
         \/ ParseEnds
  PROVE  BInv'
<1>1. phase = "parse" /\ UNCHANGED <<rdesc, vendor>>
  BY DEF ParseGlobal, ParseLocal, ParseReserved, ParseLong, BeginCollection, EndCollection,
         OtherMain, AddField, ParseEnds, Fetched, Exhausted
<1>2. PICK T, n : Reads(T, n)
  BY <1>1 DEF BInv
<1>3. /\ IsRead(rdesc, T, n) /\ (n <= Len(rdesc) => rdesc[n].type = "truncated")
      /\ ParseReads(T, n)
  BY <1>1, <1>2 DEF Reads
<1>4. UNCHANGED group => Chosen(T, n)'
  BY <1>1, <1>2 DEF Reads, Chosen
<1>5. CASE Rejected
  <2>1. phase' = "rejected" /\ UNCHANGED group
    BY <1>5 DEF Rejected, scanVars
  <2>2. Reads(T, n)'
    BY <1>1, <1>3, <1>4, <2>1 DEF Reads, Open
  <2> QED
    BY <2>1, <2>2 DEF BInv
<1>6. CASE ~Rejected /\ ~ParseEnds
  <2>1. ParseReads(T, n)' /\ phase' = "parse" /\ UNCHANGED scanVars
    BY <1>3, <1>6, ParseReadsOn
  <2>2. Reads(T, n)'
    BY <1>1, <1>3, <1>4, <2>1 DEF Reads, Open, scanVars
  <2> QED
    BY <2>1, <2>2 DEF BInv
<1>7. CASE ~Rejected /\ ParseEnds
  <2>1. /\ ~(at <= Len(rdesc)) /\ reports' = Scaled(reports) /\ phase' = "parsed"
        /\ UNCHANGED <<at, scanVars>>
    BY <1>7 DEF ParseEnds
  <2>2. at = n
    <3>1. Len(rdesc) \in Nat /\ n \in 1..Len(rdesc) + 1 /\ at \in 1..n
      BY <1>3, SeqShape DEF IInv, ItemsRead, IsRead, ParseReads
    <3> QED
      BY <2>1, <3>1
  <2>3. SameReports
    BY <2>1, ScaledKeeps DEF IInv, SameReports
  <2>4. /\ \A kind : HasIn(reports', kind) <=> HasIn(reports, kind)
        /\ FullIn(reports') <=> FullIn(reports)
    BY <2>3, SameBuilt DEF IInv
  <2>5. Built(rdesc, reports', T, n)
    BY <1>3, <2>2, <2>4 DEF ParseReads, Built
  <2>6. Reads(T, n)'
    BY <1>1, <1>3, <1>4, <2>1, <2>5 DEF Reads, scanVars
  <2> QED
    BY <2>1, <2>6 DEF BInv
<1> QED
  BY <1>5, <1>6, <1>7

\* The parsed device keeps its fields, and the next driver reads them again.
LEMMA DeviceBuilds ==
  ASSUME IInv, BInv, Connect \/ Input \/ SetField \/ SetReport \/ GetReport \/ Reconnect
  PROVE  BInv'
<1>1. /\ phase \in {"parsed", "rejected", "ready"}
      /\ UNCHANGED <<rdesc, vendor, group>>
  BY DEF Connect, Input, SetField, SetReport, GetReport, Reconnect, Reopen, RawEvent,
         RestOfDevice, scanVars
<1>2. PICK T, n : Reads(T, n)
  BY <1>1 DEF BInv
<1>3. Chosen(T, n)'
  BY <1>1, <1>2 DEF Reads, Chosen
<1>4. CASE Reconnect
  <2>1. ParseReads(T, n)' /\ phase' = "parse"
    BY <1>1, <1>2, <1>4, ParserStarts DEF Reconnect, Reopen, Reads
  <2>2. Reads(T, n)'
    BY <1>1, <1>2, <1>3, <2>1 DEF Reads, Open
  <2> QED
    BY <2>1, <2>2 DEF BInv
<1>5. CASE Connect \/ Input \/ SetField \/ SetReport \/ GetReport
  <2>1. SameReports
    BY <1>5, DeviceSame
  <2>2. /\ \A kind : HasIn(reports', kind) <=> HasIn(reports, kind)
        /\ FullIn(reports') <=> FullIn(reports)
    BY <2>1, SameBuilt DEF IInv
  <2>3. Open /\ phase' = "ready"
    BY <1>5 DEF Connect, Input, SetField, SetReport, GetReport, RawEvent, RestOfDevice, Open
  <2>4. Built(rdesc, reports', T, n)
    BY <1>2, <2>2, <2>3 DEF Reads, Built
  <2>5. Reads(T, n)'
    BY <1>1, <1>2, <1>3, <2>3, <2>4 DEF Reads
  <2> QED
    BY <2>3, <2>5 DEF BInv
<1> QED
  BY <1>4, <1>5

\* What the parser builds is at every item what the scan had met there.
THEOREM BuildingInvariance == Spec => []BInv
<1>1. Init /\ IInv => BInv
  <2> SUFFICES ASSUME Init, IInv PROVE BInv
    OBVIOUS
  <2>1. Len(rdesc) \in Nat
    BY SeqShape DEF IInv, ItemsRead
  <2> DEFINE T == [k \in {1} |-> [g |-> Global0, s |-> <<>>, l |-> Local0]]
  <2>2. T[1].g = Global0 /\ T[1].s = <<>> /\ T[1].l = Local0
    OBVIOUS
  <2> HIDE DEF T
  <2>3. IsRead(rdesc, T, 1)
    BY <2>1, <2>2 DEF IsRead
  <2>4. Scanning(T)
    BY FoundNothing DEF Init, ParserInit, Scanning
  <2>5. ScanReads(T)
    BY <2>2, <2>3, <2>4 DEF Init, ParserInit, ScanReads
  <2> QED
    BY <2>5 DEF Init, ParserInit, BInv
<1>2. IInv /\ BInv /\ [Next]_vars => BInv'
  <2> SUFFICES ASSUME IInv, BInv, [Next]_vars PROVE BInv'
    OBVIOUS
  <2>1. CASE ScanMain \/ ScanGlobal \/ ScanLocal \/ ScanReserved \/ ScanEnds
    BY <2>1, ScanBuilds
  <2>2. CASE \/ ParseGlobal \/ ParseLocal \/ ParseReserved \/ ParseLong
             \/ BeginCollection \/ EndCollection \/ OtherMain
             \/ \E type \in {"input", "output", "feature"} : AddField(type)
             \/ ParseEnds
    BY <2>2, ParserBuilds
  <2>3. CASE Connect \/ Input \/ SetField \/ SetReport \/ GetReport \/ Reconnect
    BY <2>3, DeviceBuilds
  <2>4. CASE UNCHANGED vars
    <3>1. UNCHANGED <<rdesc, vendor, at, phase, group, flags, global, stack, local, open, reports>>
      BY <2>4 DEF vars, hidVars
    <3>2. CASE phase = "scan"
      <4>1. PICK T : ScanReads(T)
        BY <3>2 DEF BInv
      <4>2. ScanReads(T)'
        BY <3>1, <4>1 DEF ScanReads, Scanning
      <4> QED
        BY <3>1, <3>2, <4>2 DEF BInv
    <3>3. CASE phase # "scan"
      <4>1. PICK T, n : Reads(T, n)
        BY <3>3 DEF BInv
      <4>2. Reads(T, n)'
        BY <3>1, <4>1 DEF Reads, Chosen, ParseReads, Open
      <4> QED
        BY <3>1, <3>3, <4>2 DEF BInv
    <3> QED
      BY <3>2, <3>3
  <2> QED
    BY <2>1, <2>2, <2>3, <2>4 DEF Next, ParserNext
<1> QED
  BY <1>1, <1>2, Invariance, PTL DEF Spec

\* hid_scan_report has chosen the group, and with it the driver, from the
\* fields hid_open_report then builds, for every descriptor it accepts, as
\* long as no report has as many fields as it may.
THEOREM ScanStaysRight == Spec => []ScanAgrees
<1>1. BInv => ScanAgrees
  BY AgreesIs
<1> QED
  BY <1>1, BuildingInvariance, PTL
=============================================================================
