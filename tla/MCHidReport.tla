---------------------------- MODULE MCHidReport ----------------------------
(***************************************************************************)
(* Descriptors and reports for TLC.  A family of descriptors is a product: *)
(* its members take one fragment from each of a sequence of sets.          *)
(***************************************************************************)
EXTENDS HidReport

Sized(type, tag, data, size) == [type |-> type, tag |-> tag, data |-> data, size |-> size]
M(tag, data) == <<Sized("main", tag, data, 1)>>
G(tag, data) == <<Sized("global", tag, data, 1)>>
G4(tag, data) == <<Sized("global", tag, data % (2 * LongSign), 4)>>
L(tag, data) == <<Sized("local", tag, data, 1)>>
Extended(hid) == <<Sized("local", "usage", hid, 4)>>
Odd(type)    == <<Sized(type, "unknown", 0, 0)>>

Family(sets) ==
  FoldLeft(LAMBDA done, S : {d \o s : d \in done, s \in S}, {<<>>}, sets)

\* A field: n values of some bits between two limits, flags as in the item.
Field(type, bits, n, lmin, lmax, fl) ==
  G("logical_min", IF lmin < 0 THEN 256 + lmin ELSE lmin) \o G("logical_max", lmax)
    \o G("report_size", bits) \o G("report_count", n) \o M(type, fl)
\* The same, with limits of four bytes.
LongField(type, bits, n, lmin, lmax, fl) ==
  G4("logical_min", lmin) \o G4("logical_max", lmax)
    \o G("report_size", bits) \o G("report_count", n) \o M(type, fl)
Array    == 0
ConstVar == 3
Var      == 2
App(page) == G("usage_page", page) \o M("collection", 1)
End == M("end_collection", 0)
Keys3 == L("usage_min", 0) \o L("usage_max", 2)

\* Keyboards: an array of two keys, of which usage 1 says too many are down, or
\* an array after a variable; numbered or not.
Keyboards == Family(<<
  {App(Keyboard)}, {<<>>, G("report_id", 1)},
  {Keys3 \o Field("input", 2, 2, 0, 2, Array), Keys3 \o Field("input", 2, 2, 1, 3, Array),
   L("usage", 5) \o Field("input", 1, 1, 0, 1, Var)
     \o Keys3 \o Field("input", 1, 3, 0, 1, Array)}, {End}>>)

\* Pointers: variables of both signs across bytes, padding, ranks.
Pointers == Family(<<
  {App(GenDesk)}, {<<>>, G("report_id", 1)},
  {L("usage", 1) \o L("usage", 2) \o Field("input", 2, 2, -1, 1, Var),
   L("usage", 1) \o LongField("input", 3, 1, -4, -1, Var),
   L("usage", 1) \o LongField("input", 2, 1, 0, -1, Var),
   L("usage", 1) \o LongField("input", 2, 1, -1, -2, Var),
   L("usage", 1) \o Field("input", 2, 1, 0, 3, Var)
     \o Field("input", 1, 1, 0, 1, ConstVar) \o L("usage", 3) \o Field("input", 1, 1, 0, 1, Var)},
  {End}>>)

\* What a driver writes: outputs and features, some wider than a byte.
Outputs == Family(<<
  {App(GenDesk)}, {<<>>, G("report_id", 1)}, {<<>>, Field("output", 1, 1, 0, 1, ConstVar)},
  {L("usage", 4)}, {Field("output", 2, 2, 0, 3, Var), Field("output", 5, 1, -8, 7, Var),
                    Field("output", 1, 1, 0, 1, Array)},
  {L("usage", 5) \o Field("output", 3, 1, -1, 1, Var),
   L("usage", 5) \o Field("feature", 2, 1, -1, 1, Var)},
  {End}>>)

\* Outputs and features of a word or more, of both signs.
Wides == Family(<<
  {App(GenDesk)}, {<<>>, Field("output", 1, 1, 0, 1, ConstVar)}, {L("usage", 4)},
  {Field(type, bits, 1, lmin, 7, Var) : type \in {"output", "feature"},
                                        bits \in {8, 9}, lmin \in {-8, 0}},
  {<<>>, L("usage", 5) \o Field("output", 2, 1, -1, 1, Var)}, {End}>>)

\* Touchpads of every kind the scan tells apart, well formed or not.
Scanned == Family(<<
  {App(p) : p \in {GenDesk, Digitizer, Sensor, Vendor}}
    \cup {G("usage_page", Google) \o L("usage", 1) \o M("collection", 1),
          G("usage_page", GenDesk) \o L("usage", 1) \o M("collection", 0)},
  {G("usage_page", Digitizer)}, {L("usage", 9), L("usage", 8)},
  {Field("input", 1, 1, 0, 1, fl) : fl \in {Var, ConstVar}},
  {<<>>, Extended(Status) \o Field("feature", 8, 1, 0, 1, Var)},
  {<<>>, G("usage_page", Vendor) \o L("usage", 5) \o Field("feature", 8, 1, 0, 1, Var)},
  {<<>>, Odd("reserved"), Odd("long"), Odd("main"), Odd("local")}, {End}>>)

\* Descriptors with mistakes: stacks, delimiters, ranges, sizes, collections.
Faulty == Family(<<
  {<<>>, App(GenDesk), End},
  {<<>>, G("push", 0), G("pop", 0), G("push", 0) \o G("push", 0) \o G("push", 0),
   G("push", 0) \o G("usage_page", Keyboard) \o G("pop", 0)},
  {<<>>, L("usage", 1), L("usage", 1) \o L("usage", 2) \o G("usage_page", Vendor),
   L("delimiter", 1) \o L("usage", 1) \o L("delimiter", 0) \o L("delimiter", 1)
     \o L("usage", 2) \o L("delimiter", 0),
   L("delimiter", 0), L("delimiter", 1) \o L("delimiter", 1), L("delimiter", 1),
   Extended(Pointer) \o L("usage_min", 1) \o L("usage_max", 9),
   L("usage_min", 2) \o L("usage_max", 1),
   L("usage_min", 0) \o L("usage_max", 2) \o L("usage", 7) \o L("usage", 8),
   L("usage_min", 0) \o L("usage_max", 9) \o L("usage_max", 0)},
  {Field("input", 1, 2, 0, 1, Var), Field("input", 1, 2, 3, 1, Var),
   Field("input", 9, 4, 0, 1, Var), Field("input", 3, 9, 0, 1, Var),
   Field("input", 1, 2, 0, 1, Var) \o G("usage_page", GenDesk) \o L("usage", 3)
     \o Field("input", 1, 3, -1, 0, Array) \o L("usage", 3) \o Field("input", 1, 1, 0, 1, Var),
   G("report_id", 0), G("report_id", 9), G("exponent", 14), Odd("global"), Odd("truncated")},
  {<<>>, End, End \o End}>>)

\* Multipliers in nested collections, the first of them below the top or not.
Scale(max) == L("usage", 8) \o G("physical_min", 1) \o G("physical_max", max)
                \o Field("feature", 1, 1, -1, 0, Var)
Wheel == L("usage", 3) \o Field("input", 1, 1, 0, 1, Var)
Scales == Family(<<
  {App(GenDesk), G("usage_page", GenDesk) \o M("collection", 2)},
  {M("collection", 2), M("collection", 0)}, {<<>>, Wheel},
  {Scale(4), Scale(200)}, {<<>>, M("collection", 0) \o Wheel \o End},
  {End}, {<<>>, Wheel, Scale(2) \o Wheel}, {End}>>)

MCDevices ==
  [rdesc : {<<>>} \cup Keyboards \cup Pointers \cup Outputs \cup Wides \cup Faulty \cup Scales,
   vendor : {"other"}]
  \cup [rdesc : Scanned, vendor : {"other", "synaptics"}]
  \cup [rdesc : Pointers, vendor : {"wacom"}]

MCDriven == Keyboards \cup Pointers \cup Outputs \cup Wides

MCClaimSets == {{"input"}, {"hidraw"}}
MCSettings == {-9, -1, 0, 3, 7}

\* Whole reports and short ones, numbered or not.
MCPayloads == [1..2 -> 0..3] \cup {<<1, a, b>> : a, b \in 0..3}
=============================================================================
