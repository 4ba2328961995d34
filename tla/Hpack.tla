------------------------------- MODULE Hpack -------------------------------
(***************************************************************************)
(* Header compression on a gNMI connection:                                *)
(*   danos-mgmt/src/gnmi/hpack.c          integers, dynamic table, blocks  *)
(*   danos-mgmt/src/gnmi/hpack_huffman.c  coded strings                    *)
(*                                                                         *)
(* The peer (external) encodes as RFC 7541 has it and keeps a table of its *)
(* own; the decoder never tells it what became of a field, so that the two *)
(* tables have to stay equal by themselves.  The ranges that decode        *)
(* strings are built by the first connection that needs them, without a    *)
(* lock, and shared by all.                                                *)
(*                                                                         *)
(* A field is a name and a value; a value stands for its own length.       *)
(***************************************************************************)
EXTENDS Integers, Sequences, FiniteSets

LOCAL INSTANCE SequencesExt

CONSTANTS TableMax,       \* HPACK_DEFAULT_TABLE_SIZE
          EntryMax,       \* HPACK_MAX_ENTRIES
          NewNames,       \* names that are not in the static table
          Values,         \* values, by length
          TableSizes,     \* sizes the peer asks for, up to TableMax
          Numbers,        \* integers that are sent
          HufLens,        \* symbol -> length of its code; the last symbol is EOS
          HufCodes,       \* symbol -> its code, right-aligned
          HufMaxSyms,     \* HUF_MAX_SYMS
          MaxText,        \* length of a string (a bound of the model)
          Decoders,       \* connections' threads
          SerialFirstUse  \* TRUE: the ranges are built before a second thread needs them

\* A field has 32 bytes on top of its name and its value, and no name is empty.
Overhead == 32
ASSUME TableAssumption == TableMax \div (Overhead + 1) < EntryMax

\* The symbols of any one length fit into its range.
ASSUME RangeAssumption ==
  \A s \in DOMAIN HufLens : Cardinality({x \in DOMAIN HufLens : HufLens[x] = HufLens[s]}) <= HufMaxSyms

VARIABLES peerTable, peerMax,  \* the encoder's table, newest first, and its limit
          dyn,                 \* c->dyn_dec: [entries, size, max]
          meant, got,          \* the last field, as encoded and as decoded
          number, prefix, coded, \* the last integer, its prefix bits and its bytes
          ranges,              \* g_ranges: length -> [min, count, syms]
          built,               \* g_ranges_built
          building             \* thread -> the symbol it enters next, or where it is

tableState == <<peerTable, peerMax, dyn, meant, got>>
intState == <<number, prefix, coded>>
hufState == <<ranges, built, building>>
hpackVars == <<tableState, intState, hufState>>

-----------------------------------------------------------------------------
(* Integers. *)

Mask(bits) == 2 ^ bits - 1
Digits[w \in Nat] == IF w >= 128 THEN <<(w % 128) + 128>> \o Digits[w \div 128] ELSE <<w>>

hpack_encode_int(v, bits, pattern) ==
  IF v < Mask(bits) THEN <<pattern + v>> ELSE <<pattern + Mask(bits)>> \o Digits[v - Mask(bits)]

\* The value and the bytes used, which are none when the data end too early or the
\* ninth digit is not the last.
MaxDigits == 9
NoInt == [v |-> 0, used |-> 0]

decode_int(data, bits) ==
  LET first == data[1] % 2 ^ bits
      last == {k \in 2..Len(data) : data[k] < 128 /\ \A j \in 2..(k - 1) : data[j] >= 128}
  IN IF data = << >> THEN NoInt
     ELSE IF first < Mask(bits) THEN [v |-> first, used |-> 1]
     ELSE IF \E k \in last : k - 1 <= MaxDigits
     THEN LET k == CHOOSE k \in last : TRUE
          IN [v |-> FoldRight(LAMBDA b, w : (b % 128) + 128 * w, SubSeq(data, 2, k), 0) + first,
              used |-> k]
     ELSE NoInt

-----------------------------------------------------------------------------
(* The dynamic table. *)

STATIC == 61
NameLen(name) == IF name \in NewNames THEN 1 ELSE 7
Field(name, value) == [name |-> name, value |-> value]
entry_size(f) == NameLen(f.name) + f.value + Overhead
TotalSize(entries) == FoldLeft(LAMBDA n, f : n + entry_size(f), 0, entries)

\* The oldest entries go until the rest fits.
\* Mutant: one at most.
evict_once(t) ==
  IF t.size > t.max /\ t.entries # << >>
  THEN [t EXCEPT !.size = @ - entry_size(Last(t.entries)), !.entries = Front(@)]
  ELSE t

RECURSIVE dyn_evict(_)
dyn_evict(t) ==
  IF t.size > t.max /\ t.entries # << >>
  THEN dyn_evict([t EXCEPT !.size = @ - entry_size(Last(t.entries)), !.entries = Front(@)])
  ELSE t

hpack_dyn_set_max_size(t, max) == dyn_evict([t EXCEPT !.max = max])

\* A full array refuses the entry, which the decoder does not notice; an entry larger
\* than the table empties it.
hpack_dyn_insert(t, f) ==
  IF Len(t.entries) >= EntryMax THEN t
  ELSE IF entry_size(f) > t.max THEN [t EXCEPT !.entries = << >>, !.size = 0]
  ELSE dyn_evict([t EXCEPT !.entries = <<f>> \o @, !.size = @ + entry_size(f)])

NoField == Field(0, 0)
hpack_lookup_index(entries, i) ==
  IF i \in 1..STATIC THEN Field(i, 0)
  ELSE IF i - STATIC \in DOMAIN entries THEN entries[i - STATIC] ELSE NoField

\* A representation: the bytes of its integer, and for a literal a new name, if the
\* integer is 0, and a value.  The first byte's top bits say which it is.
Rep(bytes, name, value) == [bytes |-> bytes, name |-> name, value |-> value]
Prefix(b) == IF b >= 128 THEN 7 ELSE IF b >= 64 THEN 6 ELSE IF b >= 32 THEN 5 ELSE 4

\* One round of the decoder's loop: the table, and the field passed to the callback, if
\* any.  An index that names nothing ends the block.
Failed == Field(-1, 0)
hpack_decode(t, rep) ==
  LET b == rep.bytes[1]
      int == decode_int(rep.bytes, Prefix(b))
      i == int.v
      at == hpack_lookup_index(t.entries, i)
      literal == Field(IF i = 0 THEN rep.name ELSE at.name, rep.value)
      lost == at = NoField /\ (b >= 128 \/ (i # 0 /\ Prefix(b) # 5))
  IN IF int.used = 0 \/ lost THEN [table |-> t, field |-> Failed]
     ELSE IF b >= 128 THEN [table |-> t, field |-> at]
     ELSE IF b >= 64 THEN [table |-> hpack_dyn_insert(t, literal), field |-> literal]
     ELSE IF b >= 32 THEN [table |-> hpack_dyn_set_max_size(t, i), field |-> NoField]
     ELSE [table |-> t, field |-> literal]

\* The encoder's table: the newest entries that fit.
Fitting(entries, max) ==
  LET fits == {k \in 0..Len(entries) : TotalSize(SubSeq(entries, 1, k)) <= max}
  IN SubSeq(entries, 1, CHOOSE k \in fits : \A j \in fits : j <= k)

Indexes == {15, STATIC} \cup (STATIC + 1)..(STATIC + Len(peerTable))

Send(rep, field, entries, max) ==
  LET d == hpack_decode(dyn, rep) IN
  /\ meant' = field /\ got' = d.field /\ dyn' = d.table
  /\ peerTable' = Fitting(entries, max) /\ peerMax' = max
  /\ UNCHANGED <<intState, hufState>>

SendIndexed ==
  \E i \in Indexes :
    Send(Rep(hpack_encode_int(i, 7, 128), 0, 0), hpack_lookup_index(peerTable, i), peerTable, peerMax)

\* With incremental indexing, without it, and never indexed.
SendLiteral ==
  \E i \in Indexes \cup {0}, n \in NewNames, v \in Values, pattern \in {64, 0, 16} :
    LET f == Field(IF i = 0 THEN n ELSE hpack_lookup_index(peerTable, i).name, v) IN
    Send(Rep(hpack_encode_int(i, IF pattern = 64 THEN 6 ELSE 4, pattern), n, v), f,
         IF pattern = 64 THEN <<f>> \o peerTable ELSE peerTable, peerMax)

SendSize ==
  \E max \in TableSizes :
    Send(Rep(hpack_encode_int(max, 5, 32), 0, 0), NoField, peerTable, max)

SendInt ==
  /\ \E v \in Numbers, bits \in 4..7 :
       number' = v /\ prefix' = bits /\ coded' = hpack_encode_int(v, bits, 0)
  /\ UNCHANGED <<tableState, hufState>>

-----------------------------------------------------------------------------
(* Coded strings.  A symbol is a number; the cast to uint8_t makes EOS symbol 0. *)

\* A thread that is not building is outside, or past huf_build_ranges.
Idle == -1
Ready == -2

EOS == CHOOSE s \in DOMAIN HufLens : s + 1 \notin DOMAIN HufLens
HufMaxLen == HufLens[EOS]
NoRange == [min |-> 0, count |-> 0, syms |-> [k \in 0..(HufMaxSyms - 1) |-> 0]]

\* huf_build_ranges, one symbol after the other, by every thread that finds
\* g_ranges_built unset.
HufBegin(c) ==
  /\ building[c] = Idle
  /\ IF built THEN building' = [building EXCEPT ![c] = Ready] /\ UNCHANGED ranges
     ELSE /\ SerialFirstUse => \A d \in Decoders : building[d] = Idle
          /\ ranges' = [l \in 1..HufMaxLen |-> NoRange]
          /\ building' = [building EXCEPT ![c] = 0]
  /\ UNCHANGED <<tableState, intState, built>>

HufEnter(c) ==
  /\ building[c] \in DOMAIN HufLens
  /\ LET s == building[c]
         r == ranges[HufLens[s]]
         min == IF r.count = 0 \/ HufCodes[s] < r.min THEN HufCodes[s] ELSE r.min
         syms == IF r.count < HufMaxSyms THEN [r.syms EXCEPT ![r.count] = s % EOS] ELSE r.syms
     IN /\ ranges' = [ranges EXCEPT ![HufLens[s]] =
                        [min |-> min, count |-> r.count + 1, syms |-> syms]]
        /\ building' = [building EXCEPT ![c] = s + 1]
  /\ UNCHANGED <<tableState, intState, built>>

HufBuilt(c) ==
  /\ building[c] = EOS + 1 /\ building' = [building EXCEPT ![c] = Ready] /\ built' = TRUE
  /\ UNCHANGED <<tableState, intState, ranges>>

\* The codes one after the other, padded with ones to a byte.
BitsOf(code, len) == [i \in 1..len |-> (code \div 2 ^ (len - i)) % 2]
Number(bits) == FoldLeft(LAMBDA n, bit : 2 * n + bit, 0, bits)
hpack_huffman_encode(s) ==
  LET bits == FoldLeft(LAMBDA all, x : all \o BitsOf(HufCodes[x], HufLens[x]), << >>, s)
      padded == bits \o [i \in 1..((8 - (Len(bits) % 8)) % 8) |-> 1]
  IN [k \in 1..(Len(padded) \div 8) |-> Number(SubSeq(padded, 8 * k - 7, 8 * k))]

\* A code of clen bits is one of that length's.
\* Mutant: the range is one code too long.
InRangeClosed(r, code) == r.count > 0 /\ code >= r.min /\ code <= r.min + r.count

InRange(r, code) == r.count > 0 /\ code >= r.min /\ code < r.min + r.count

HufBit(st, bit) ==
  LET code == 2 * st.code + bit
      r == ranges[st.clen + 1]
      sym == r.syms[code - r.min]
  IN IF ~st.ok \/ st.clen + 1 > HufMaxLen THEN [st EXCEPT !.ok = FALSE]
     ELSE IF ~InRange(r, code) THEN [st EXCEPT !.code = code, !.clen = @ + 1]
     ELSE IF sym = EOS THEN [st EXCEPT !.ok = FALSE]
     ELSE [st EXCEPT !.code = 0, !.clen = 0, !.out = Append(@, sym)]

\* Into a buffer of cap bytes; what is left at the end are ones, less than a byte of them.
NoText == <<-1>>
hpack_huffman_decode(data, cap) ==
  LET bits == FoldLeft(LAMBDA all, b : all \o BitsOf(b, 8), << >>, data)
      st == FoldLeft(HufBit, [code |-> 0, clen |-> 0, out |-> << >>, ok |-> TRUE], bits)
  IN IF st.ok /\ Len(st.out) <= cap /\ st.clen < 8 /\ st.code = 2 ^ st.clen - 1
     THEN st.out ELSE NoText

\* A string is its length and its bytes, which the top bit says are coded.
HuffmanString(s) ==
  LET bytes == hpack_huffman_encode(s) IN hpack_encode_int(Len(bytes), 7, 128) \o bytes
hpack_encode_string(s) == hpack_encode_int(Len(s), 7, 0) \o s

\* The string, and the rest of the data.
decode_string(data) ==
  LET int == decode_int(data, 7)
      body == SubSeq(data, int.used + 1, int.used + int.v)
  IN IF int.used = 0 \/ int.used + int.v > Len(data) THEN [s |-> NoText, rest |-> << >>]
     ELSE [s |-> IF data[1] >= 128 THEN hpack_huffman_decode(body, (int.v * 8) \div 5 + 8) ELSE body,
           rest |-> SubSeq(data, int.used + int.v + 1, Len(data))]

\* A literal with a new name, as the server writes its own: the name, then the value.
hpack_encode_literal(name, value) == <<0>> \o hpack_encode_string(name) \o hpack_encode_string(value)

Texts == UNION {[1..n -> DOMAIN HufLens \ {0, EOS}] : n \in 0..MaxText}

\* The thread decodes its block and is done with the ranges until the next.
HufDecode(c) ==
  /\ building[c] = Ready /\ building' = [building EXCEPT ![c] = Idle]
  /\ UNCHANGED <<tableState, intState, ranges, built>>

HpackInit ==
  /\ peerTable = << >> /\ peerMax = TableMax
  /\ dyn = [entries |-> << >>, size |-> 0, max |-> TableMax]
  /\ meant = NoField /\ got = NoField
  /\ number = 0 /\ prefix = 7 /\ coded = <<0>>
  /\ ranges = [l \in 1..HufMaxLen |-> NoRange] /\ built = FALSE
  /\ building = [c \in Decoders |-> Idle]

HpackNext == SendIndexed \/ SendLiteral \/ SendSize
HufNext == \E c \in Decoders : HufBegin(c) \/ HufEnter(c) \/ HufBuilt(c) \/ HufDecode(c)

-----------------------------------------------------------------------------
(* Properties. *)

\* The decoder's table is the encoder's after any sequence of insertions, evictions and
\* size updates, an entry that fills the table or exceeds it included, so that every
\* field is decoded as it was meant; and the running size is the sum of the entries'.
TablesAgree ==
  /\ got = meant
  /\ dyn.entries = peerTable /\ dyn.max = peerMax
  /\ dyn.size = TotalSize(dyn.entries)

\* decode_int reads back what hpack_encode_int wrote, at the last value of a prefix and
\* of each digit too; it takes no byte more, whatever follows, and none less.
IntExact ==
  /\ \A more \in {<< >>, <<0>>, <<255>>} :
       decode_int(coded \o more, prefix) = [v |-> number, used |-> Len(coded)]
  /\ \A k \in 1..(Len(coded) - 1) : decode_int(SubSeq(coded, 1, k), prefix) = NoInt

\* Whichever thread built the ranges (per length a smallest code, a count and a list of
\* symbols), a thread that is past huf_build_ranges decodes every literal to the name and
\* the value it was made of, whatever the padding, and whichever of the two are coded.
TextExact ==
  \A c \in Decoders : building[c] = Ready =>
    \A name, value \in Texts : Len(name) + Len(value) <= MaxText =>
      \A literal \in {hpack_encode_literal(name, value),
                      <<0>> \o HuffmanString(name) \o hpack_encode_string(value),
                      <<0>> \o HuffmanString(name) \o HuffmanString(value)} :
        LET first == decode_string(Tail(literal))
        IN first.s = name /\ decode_string(first.rest) = [s |-> value, rest |-> << >>]

\* What is coded is decoded: integers on the wire, and the strings of literals.
CodecExact == IntExact /\ TextExact
=============================================================================
