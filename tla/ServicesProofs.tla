---------------------------- MODULE ServicesProofs ----------------------------
(***************************************************************************)
(* Proofs about Preferences, File objects, the TCP client and HTTPClient   *)
(* of Services: for any handles, namespaces, files and sizes, any number   *)
(* of calls, any server, and any bodies, chunks and buffers.               *)
(***************************************************************************)
EXTENDS Services, NumberFacts, FiniteSetTheorems

(* A behaviour of the libraries is a behaviour of each of them.            *)
LEMMA ServicesStep ==
  ASSUME [ServicesNext]_services_vars
  PROVE  /\ [PrefNext]_pref_vars
         /\ [FileNext]_file_vars
         /\ [TcpNext]_tcp_vars
BY DEF ServicesNext, services_vars, beside_stream, beside_tcp, beside_prefs, beside_files,
       beside_http, pref_vars, file_vars, tcp_vars
------------------------------------------------------------------------------
(* A set of places of a sequence that is not empty has a last one:         *)
(* otherwise the successor would map the places before one of them, which  *)
(* are finitely many, into themselves without reaching 1.                  *)
LEMMA LastPlace ==
  ASSUME NEW n \in Nat, NEW S \in SUBSET (1..n), S # {}
  PROVE  (CHOOSE i \in S : \A j \in S : j <= i) \in S
<1> SUFFICES \E i \in S : \A j \in S : j <= i
  BY Zenon
<1> SUFFICES ASSUME \A i \in S : \E j \in S : i < j PROVE FALSE
  OBVIOUS
<1> DEFINE B == {m \in 1..n : \E i \in S : m <= i}
           succ == [m \in B |-> m + 1]
<1>1. IsFiniteSet(B)
  <2>1. IsFiniteSet(1..n)
    BY FS_Interval
  <2> QED
    BY <2>1, FS_Subset
<1>2. 1 \in B
  <2>1. PICK i \in S : TRUE
    OBVIOUS
  <2>2. i \in 1..n /\ 1 \in 1..n /\ 1 <= i
    BY <2>1
  <2> QED
    BY <2>1, <2>2
<1>3. ASSUME NEW m \in B PROVE m + 1 \in B
  <2>1. PICK i \in S : m <= i
    OBVIOUS
  <2>2. PICK j \in S : i < j
    BY <2>1
  <2> QED
    BY <2>1, <2>2
<1> HIDE DEF B
<1>4. B \subseteq 1..n
  BY DEF B
<1>5. succ \in Injection(B, B)
  BY <1>3, <1>4 DEF Injection, IsInjective
<1>6. succ \in Surjection(B, B)
  BY <1>1, <1>5, FS_Injection, Zenon
<1>7. PICK m \in B : succ[m] = 1
  BY <1>2, <1>6 DEF Surjection
<1>8. m + 1 = 1 /\ m \in 1..n
  BY <1>4, <1>7
<1> QED
  BY <1>8

(* The inductive invariant of the preferences: a handle is started in the  *)
(* namespace and the mode that the sketch has asked for last, every change *)
(* was made in such a session, and the store holds what they add up to.    *)
Sessions == [ns : Namespaces, read_only : BOOLEAN]
Changes == [by : Sessions \cup {Nowhere}, keys : SUBSET Keys, put : Puts]

(* What a put, or the lack of one, leaves in the store.                    *)
EntryOf(put) == IF put = Nowhere THEN Nowhere ELSE Packed(put.kind, put.value)

SessionsAgree ==
  \A h \in PrefHandles :
    IF prefs[h].started
    THEN /\ session[h] \in Sessions
         /\ session[h].ns = prefs[h].ns /\ session[h].read_only = prefs[h].read_only
    ELSE session[h] = Nowhere

WritersMay == \A i \in 1..Len(written) : written[i].by \in Sessions /\ ~written[i].by.read_only
StoreAddsUp ==
  \A ns \in Namespaces : \A k \in Keys :
    LastWritten(ns, k) \in Puts /\ store[ns][k] = EntryOf(LastWritten(ns, k))

PrefInv ==
  /\ store \in [Namespaces -> [Keys -> Entries]]
  /\ prefs \in [PrefHandles -> [ns : Namespaces \cup {NoName}, started : BOOLEAN,
                                read_only : BOOLEAN]]
  /\ session \in [PrefHandles -> Sessions \cup {Nowhere}]
  /\ written \in Seq(Changes)
  /\ SessionsAgree /\ WritersMay /\ StoreAddsUp

(* What was written last to a key after one more change.                   *)
LEMMA OneMoreChange ==
  ASSUME written \in Seq(Changes), NEW change \in Changes, change.by \in Sessions,
         written' = Append(written, change), NEW ns \in Namespaces, NEW k \in Keys
  PROVE  LastWritten(ns, k)' =
           IF change.by.ns = ns /\ k \in change.keys THEN change.put ELSE LastWritten(ns, k)
<1> DEFINE n == Len(written)
           W == WritesTo(ns, k)
           V == WritesTo(ns, k)'
<1>1. /\ n \in Nat /\ Len(written') = n + 1 /\ written'[n + 1] = change
      /\ \A i \in 1..n : written'[i] = written[i]
  OBVIOUS
<1>2. change.by # Nowhere
  BY PrefAssumption DEF Sessions
<1>3. W \in SUBSET (1..n)
  BY DEF WritesTo
<1>4. CASE change.by.ns = ns /\ k \in change.keys
  <2>1. V = W \cup {n + 1}
    BY <1>1, <1>2, <1>4 DEF WritesTo
  <2> HIDE DEF V, W
  <2>2. n + 1 \in V /\ \A j \in V : j <= n + 1
    BY <1>1, <1>3, <2>1
  <2> DEFINE last == CHOOSE i \in V : \A j \in V : j <= i
  <2>3. last \in V /\ \A j \in V : j <= last
    BY <2>2, Zenon
  <2>4. last = n + 1
    <3> HIDE DEF last
    <3> QED
      BY <1>1, <1>3, <2>1, <2>2, <2>3
  <2>5. LastWritten(ns, k)' = written'[last].put
    BY <2>2, Zenon DEF LastWritten, V
  <2> HIDE DEF last
  <2> QED
    BY <1>1, <1>4, <2>4, <2>5
<1>5. CASE ~(change.by.ns = ns /\ k \in change.keys)
  <2>1. V = W
    BY <1>1, <1>5 DEF WritesTo
  <2> HIDE DEF V, W
  <2>2. CASE W = {}
    BY <1>5, <2>1, <2>2 DEF LastWritten, V, W
  <2>3. CASE W # {}
    <3> DEFINE last == CHOOSE i \in W : \A j \in W : j <= i
    <3>1. last \in 1..n
      BY <1>1, <1>3, <2>3, LastPlace
    <3>2. LastWritten(ns, k) = written[last].put
      BY <2>3, Zenon DEF LastWritten, W
    <3>3. LastWritten(ns, k)' = written'[last].put
      BY <2>1, <2>3, Zenon DEF LastWritten, V, W
    <3> HIDE DEF last
    <3> QED
      BY <1>1, <1>5, <3>1, <3>2, <3>3
  <2> QED
    BY <2>2, <2>3
<1> QED
  BY <1>4, <1>5

(* A change through any handle keeps the invariant.                        *)
LEMMA WritesKeep ==
  ASSUME PrefInv, NEW h \in PrefHandles, NEW ks \in SUBSET Keys, NEW entry \in Entries,
         NEW put \in Puts, entry = EntryOf(put), Writes(h, ks, entry, put)
  PROVE  PrefInv'
<1> DEFINE ns == prefs[h].ns
           change == [by |-> session[h], keys |-> ks, put |-> put]
<1>1. /\ prefs[h].started /\ ~prefs[h].read_only
      /\ store' = [store EXCEPT ![ns] = [k \in Keys |-> IF k \in ks THEN entry ELSE @[k]]]
      /\ written' = Append(written, change)
      /\ UNCHANGED <<prefs, session>>
  BY DEF Writes, ReadyToWrite
<1>2. /\ session[h] \in Sessions /\ session[h].ns = ns /\ ~session[h].read_only
      /\ ns \in Namespaces
  BY <1>1 DEF PrefInv, SessionsAgree, Sessions
<1>3. /\ change \in Changes /\ change.by = session[h] /\ change.keys = ks
      /\ change.put = put
  BY <1>2 DEF Changes
<1> HIDE DEF change
<1>4. store \in [Namespaces -> [Keys -> Entries]] /\ written \in Seq(Changes)
  BY DEF PrefInv
<1>5. store' \in [Namespaces -> [Keys -> Entries]]
  <2>1. store[ns] \in [Keys -> Entries]
    BY <1>2, <1>4
  <2>2. [k \in Keys |-> IF k \in ks THEN entry ELSE store[ns][k]] \in [Keys -> Entries]
    BY <2>1
  <2> QED
    BY <1>1, <1>2, <1>4, <2>2
<1>6. written' \in Seq(Changes)
  BY <1>1, <1>3, <1>4
<1>7. WritersMay'
  <2>1. /\ Len(written') = Len(written) + 1 /\ written'[Len(written) + 1] = change
        /\ \A i \in 1..Len(written) : written'[i] = written[i]
    BY <1>1, <1>3, <1>4
  <2>2. \A i \in 1..Len(written) : written[i].by \in Sessions /\ ~written[i].by.read_only
    BY DEF PrefInv, WritersMay
  <2>3. \A i \in 1..Len(written') : i \in 1..Len(written) \/ i = Len(written) + 1
    BY <1>4, <2>1
  <2> QED
    BY <1>2, <1>3, <2>1, <2>2, <2>3 DEF WritersMay
<1>8. ASSUME NEW m \in Namespaces, NEW k \in Keys
      PROVE  LastWritten(m, k)' \in Puts /\ store'[m][k] = EntryOf(LastWritten(m, k)')
  <2>1. LastWritten(m, k)' = IF ns = m /\ k \in ks THEN put ELSE LastWritten(m, k)
    BY <1>1, <1>2, <1>3, <1>4, OneMoreChange
  <2>2. LastWritten(m, k) \in Puts /\ store[m][k] = EntryOf(LastWritten(m, k))
    BY DEF PrefInv, StoreAddsUp
  <2>3. store'[m][k] = IF ns = m /\ k \in ks THEN entry ELSE store[m][k]
    BY <1>1, <1>4
  <2> QED
    BY <2>1, <2>2, <2>3
<1>9. SessionsAgree'
  BY <1>1 DEF PrefInv, SessionsAgree
<1>10. StoreAddsUp'
  BY <1>8 DEF StoreAddsUp, EntryOf
<1> QED
  BY <1>1, <1>5, <1>6, <1>7, <1>9, <1>10 DEF PrefInv

(* What a put stores is an entry, and the one that belongs to it.          *)
LEMMA EntryStored ==
  ASSUME NEW kind \in Kinds \cup {"String", "Bytes"}, NEW v \in Values
  PROVE  /\ kind \in DOMAIN TypeOf
         /\ [kind |-> kind, value |-> v] \in Puts
         /\ Packed(kind, v) \in Entries
         /\ Packed(kind, v) = EntryOf([kind |-> kind, value |-> v])
<1>1. kind \in DOMAIN TypeOf
  <2>1. "String" \in DOMAIN TypeOf /\ "Bytes" \in DOMAIN TypeOf
    BY DEF TypeOf
  <2> QED
    BY <2>1, EntryAssumption
<1>2. TypeOf[kind] \in Types
  BY <1>1, Zenon DEF Types
<1>3. (IF kind = "Bool" THEN Truth(v) ELSE v) \in Values \cup {0, 1}
  BY DEF Truth
<1>4. Packed(kind, v) \in Entries
  BY <1>2, <1>3 DEF Entries, Packed
<1> DEFINE put == [kind |-> kind, value |-> v]
<1>5. put \in [kind : Kinds \cup {"String", "Bytes"}, value : Values]
  OBVIOUS
<1>6. put.kind = kind /\ put.value = v
  OBVIOUS
<1> HIDE DEF put
<1>7. put # Nowhere
  BY <1>5, EntryAssumption
<1>8. Packed(kind, v) = EntryOf(put)
  BY <1>6, <1>7 DEF EntryOf
<1>9. put \in Puts
  BY <1>5 DEF Puts
<1> QED
  BY <1>1, <1>4, <1>8, <1>9 DEF put

(* No call on any handle breaks the invariant.                             *)
LEMMA PrefInvInductive == PrefInv /\ [PrefNext]_pref_vars => PrefInv'
<1> SUFFICES ASSUME PrefInv, [PrefNext]_pref_vars PROVE PrefInv'
  OBVIOUS
<1>0. UNCHANGED <<store, written>> => UNCHANGED store /\ WritersMay' /\ StoreAddsUp'
  <2> SUFFICES ASSUME UNCHANGED <<store, written>> PROVE WritersMay' /\ StoreAddsUp'
    OBVIOUS
  <2>1. \A ns, k : LastWritten(ns, k)' = LastWritten(ns, k)
    BY DEF LastWritten, WritesTo
  <2> QED
    BY <2>1 DEF PrefInv, WritersMay, StoreAddsUp
<1>1. ASSUME NEW h \in PrefHandles, NEW ns \in Namespaces, NEW read_only \in BOOLEAN,
             PrefBegin(h, ns, read_only)
      PROVE  PrefInv'
  BY <1>0, <1>1 DEF PrefBegin, PrefInv, SessionsAgree, Sessions
<1>2. ASSUME NEW h \in PrefHandles, PrefEnd(h) PROVE PrefInv'
  BY <1>0, <1>2 DEF PrefEnd, PrefInv, SessionsAgree
<1>3. ASSUME NEW h \in PrefHandles, NEW k \in Keys, NEW kind \in Kinds \cup {"String", "Bytes"},
             NEW v \in Values, PutScalar(h, k, kind, v)
      PROVE  PrefInv'
  BY <1>3, EntryStored, WritesKeep DEF PutScalar
<1>4. ASSUME NEW h \in PrefHandles, NEW k \in Keys, NEW n \in Values,
             PutString(h, k, n) \/ PutBytes(h, k, n)
      PROVE  PrefInv'
  BY <1>3, <1>4 DEF PutString, PutBytes
<1>5. ASSUME NEW h \in PrefHandles, PrefClear(h) \/ \E k \in Keys : PrefRemove(h, k) PROVE PrefInv'
  <2>1. Nowhere \in Entries /\ Nowhere \in Puts /\ Nowhere = EntryOf(Nowhere)
    BY DEF Entries, Puts, EntryOf
  <2> QED
    BY <1>5, <2>1, WritesKeep DEF PrefClear, PrefRemove
<1>6. CASE UNCHANGED pref_vars
  BY <1>0, <1>6 DEF pref_vars, PrefInv, SessionsAgree
<1> QED
  BY <1>1, <1>2, <1>3, <1>4, <1>5, <1>6 DEF PrefNext

(* Kinds that are not lumped together have types of their own.             *)
LEMMA KindsHaveTypes ==
  ASSUME NEW a \in DOMAIN TypeOf, NEW b \in DOMAIN TypeOf, a # b, TypeOf[a] = TypeOf[b]
  PROVE  \E kinds \in Lumped : {a, b} \subseteq kinds
BY DEF TypeOf, Lumped

(* What a get answers follows from the put that was the last.              *)
LEMMA GetAnswers ==
  ASSUME PrefInv, NEW h \in PrefHandles, NEW k \in Keys, NEW kind \in Kinds, NEW space \in Values
  PROVE  LET put == LastPut(h, k)
             answer == PrefGet(h, k, kind, space)
         IN IF put = Nowhere THEN answer = Nowhere
            ELSE IF kind # put.kind
            THEN (\E kinds \in Lumped : {kind, put.kind} \subseteq kinds) \/ answer = Nowhere
            ELSE CASE kind \in {"String", "Bytes"} ->
                        /\ answer \in Nat /\ answer <= space /\ answer <= put.value
                        /\ put.value < space => answer = put.value
                   [] kind = "Bool" -> answer = Truth(put.value)
                   [] OTHER -> answer = put.value
<1> DEFINE put == LastPut(h, k)
           answer == PrefGet(h, k, kind, space)
           entry == store[prefs[h].ns][k]
<1>1. CASE ~prefs[h].started
  <2>1. session[h] = Nowhere /\ answer = Nowhere
    BY <1>1 DEF PrefInv, SessionsAgree, PrefGet
  <2> QED
    BY <2>1 DEF LastPut
<1>2. CASE prefs[h].started
  <2>1. /\ session[h] # Nowhere /\ session[h].ns = prefs[h].ns /\ prefs[h].ns \in Namespaces
    BY <1>2, PrefAssumption DEF PrefInv, SessionsAgree, Sessions
  <2>2. put \in Puts /\ entry = EntryOf(put)
    BY <2>1 DEF PrefInv, StoreAddsUp, LastPut
  <2>3. CASE put = Nowhere
    BY <2>2, <2>3 DEF EntryOf, PrefGet
  <2>4. CASE put # Nowhere
    <3>1. /\ put \in [kind : Kinds \cup {"String", "Bytes"}, value : Values]
          /\ put.kind \in Kinds \cup {"String", "Bytes"} /\ put.value \in Values
      BY <2>2, <2>4 DEF Puts
    <3>2. put.value \in Nat /\ space \in Nat
      BY <3>1, PrefAssumption
    <3> HIDE DEF put
    <3>3. entry = Packed(put.kind, put.value)
      BY <2>2, <2>4 DEF EntryOf
    <3>4. Packed(put.kind, put.value) \in [type : Types, value : Values \cup {0, 1}]
      <4>1. TypeOf[put.kind] \in Types
        BY <3>1, EntryStored, Zenon DEF Types
      <4> QED
        BY <3>1, <4>1 DEF Packed, Truth
    <3>5. entry # Nowhere /\ entry.type = TypeOf[put.kind]
          /\ entry.value = IF put.kind = "Bool" THEN Truth(put.value) ELSE put.value
      BY <3>3, <3>4, EntryAssumption DEF Packed
    <3>6. CASE kind # put.kind
      <4>1. CASE entry.type # TypeOf[kind]
        BY <1>2, <2>4, <3>5, <3>6, <4>1 DEF PrefGet, put
      <4>2. CASE entry.type = TypeOf[kind]
        <5>1. \E kinds \in Lumped : {kind, put.kind} \subseteq kinds
          BY <3>1, <3>5, <3>6, <4>2, EntryStored, KindsHaveTypes
        <5> QED
          BY <2>4, <3>6, <5>1 DEF put
      <4> QED
        BY <4>1, <4>2
    <3>7. CASE kind = put.kind
      <4> DEFINE v == entry.value
                 said == CASE kind = "Bytes" -> Lesser(v, space)
                           [] kind = "String" -> IF space = 0 THEN 0 ELSE Lesser(v, space - 1)
                           [] kind = "Bool" -> Truth(v)
                           [] OTHER -> v
      <4>1. answer = said
        BY <1>2, <3>5, <3>7 DEF PrefGet
      <4>2. v = IF kind = "Bool" THEN Truth(put.value) ELSE put.value
        BY <3>5, <3>7
      <4> HIDE DEF v, answer
      <4>3. CASE kind \in {"String", "Bytes"}
        <5>1. v = put.value
          BY <4>2, <4>3
        <5>2. /\ said \in Nat /\ said <= space /\ said <= put.value
              /\ put.value < space => said = put.value
          BY <3>2, <4>3, <5>1 DEF Lesser
        <5> HIDE DEF said
        <5> QED
          BY <2>4, <3>7, <4>1, <4>3, <5>2 DEF put, answer
      <4>4. CASE kind = "Bool"
        <5>1. said = Truth(put.value)
          BY <3>2, <4>2, <4>4 DEF Truth
        <5> HIDE DEF said
        <5> QED
          BY <2>4, <3>7, <4>1, <4>4, <5>1 DEF put, answer
      <4>5. CASE kind \notin {"String", "Bytes", "Bool"}
        <5>1. said = put.value
          BY <4>2, <4>5
        <5> HIDE DEF said
        <5> QED
          BY <2>4, <3>7, <4>1, <4>5, <5>1 DEF put, answer
      <4> QED
        BY <4>3, <4>4, <4>5
    <3> QED
      BY <3>6, <3>7
  <2> QED
    BY <2>3, <2>4
<1> QED
  BY <1>1, <1>2

(* Whoever gets a key by the kind it was last put by finds what was put,   *)
(* through whichever handle, and the default when another kind was put     *)
(* that the code does not lump together with it; and no write comes from a *)
(* handle that may not write: for any namespaces, keys, kinds and values   *)
(* (Preferences.h:5-8, README.md:122).                                     *)
THEOREM LastWriteWins == ServicesSpec => []PrefsLastWriteWins
<1>1. ServicesInit => PrefInv
  <2> SUFFICES ASSUME ServicesInit PROVE PrefInv
    OBVIOUS
  <2>1. /\ store = [ns \in Namespaces |-> [k \in Keys |-> Nowhere]]
        /\ prefs = [h \in PrefHandles |-> [ns |-> NoName, started |-> FALSE, read_only |-> FALSE]]
        /\ written = <<>> /\ session = [h \in PrefHandles |-> Nowhere]
    BY DEF ServicesInit, PrefInit
  <2>2. store \in [Namespaces -> [Keys -> Entries]]
    BY <2>1 DEF Entries
  <2>3. written \in Seq(Changes) /\ Len(written) = 0
    BY <2>1
  <2>4. \A ns \in Namespaces : \A k \in Keys : LastWritten(ns, k) = Nowhere
    BY <2>3 DEF LastWritten, WritesTo
  <2>5. StoreAddsUp /\ WritersMay
    BY <2>1, <2>3, <2>4 DEF StoreAddsUp, WritersMay, EntryOf, Puts
  <2> QED
    BY <2>1, <2>2, <2>3, <2>5 DEF PrefInv, SessionsAgree
<1>2. PrefInv /\ [ServicesNext]_services_vars => PrefInv'
  BY ServicesStep, PrefInvInductive
<1>3. PrefInv => PrefsLastWriteWins
  <2> SUFFICES ASSUME PrefInv PROVE PrefsLastWriteWins
    OBVIOUS
  <2>1. \A i \in 1..Len(written) : written[i].by # Nowhere /\ ~written[i].by.read_only
    BY PrefAssumption DEF PrefInv, WritersMay, Sessions
  <2> QED
    BY <2>1, GetAnswers DEF PrefsLastWriteWins
<1> QED
  BY <1>1, <1>2, <1>3, PTL DEF ServicesSpec
------------------------------------------------------------------------------
FileStates == [open : BOOLEAN, inode : Inodes \cup {Absent}, mode : OpenModes,
               offset : Nat, buffered : Nat, path : Paths \cup {Absent},
               size : Nat, position : Nat]

FileTypes ==
  /\ dirent \in [Paths -> Inodes \cup {Absent}] /\ length \in [Inodes -> Nat]
  /\ file \in [Objects -> FileStates]
  /\ \A o \in Objects : file[o].open => file[o].inode \in Inodes /\ file[o].path \in Paths

(* FileTellsItself for one object, without the call that reads it.         *)
Tells(o) ==
  file[o].open /\ file[o].mode # "a" =>
    /\ file[o].position = file[o].offset
    /\ o \in alone => file[o].size = WrittenLength(o)

FileInv == FileTypes /\ \A o \in Objects : Tells(o)

(* What a flush leaves of the lengths, and of a stream.                    *)
LEMMA WrittenIsNat ==
  ASSUME FileTypes, NEW o \in Objects, file[o].open
  PROVE  WrittenLength(o) \in Nat
<1>1. /\ file[o] \in FileStates /\ file[o].inode \in Inodes
      /\ length[file[o].inode] \in Nat
  BY DEF FileTypes
<1> QED
  BY <1>1 DEF WrittenLength, Larger, FileStates

(* A flush moves only the offset, and only of a stream that appends.       *)
LEMMA FlushedStream ==
  ASSUME FileTypes, NEW o \in Objects, file[o].open
  PROVE  /\ Flushed(o) \in FileStates
         /\ Flushed(o).open /\ Flushed(o).inode = file[o].inode
         /\ Flushed(o).mode = file[o].mode /\ Flushed(o).path = file[o].path
         /\ Flushed(o).size = file[o].size /\ Flushed(o).position = file[o].position
         /\ Flushed(o).buffered = 0
         /\ file[o].mode # "a" => Flushed(o).offset = file[o].offset
<1>1. file[o] \in FileStates /\ WrittenLength(o) \in Nat
  BY WrittenIsNat DEF FileTypes
<1> QED
  BY <1>1 DEF Flushed, FileStates

(* The file of a flushed stream has what the stream had written.           *)
LEMMA FlushedLengths ==
  ASSUME FileTypes, NEW o \in Objects, Flushes(o)
  PROVE  /\ length' \in [Inodes -> Nat]
         /\ file[o].open => length'[file[o].inode] = WrittenLength(o)
<1>1. length \in [Inodes -> Nat] /\ (file[o].open => file[o].inode \in Inodes)
  BY DEF FileTypes
<1>2. file[o].open => WrittenLength(o) \in Nat
  BY WrittenIsNat
<1> QED
  BY <1>1, <1>2 DEF Flushes

(* An object that a call on another one leaves alone.                      *)
LEMMA Bystander ==
  ASSUME FileInv, NEW o \in Objects, NEW q \in Objects, q # o, file'[q] = file[q],
         q \in alone' => q \in Undisturbed(o)
  PROVE  Tells(q)'
<1> SUFFICES ASSUME file[q].open, file[q].mode # "a"
             PROVE  /\ file[q].position = file[q].offset
                    /\ q \in alone' => file[q].size = WrittenLength(q)'
  BY DEF Tells
<1>1. Tells(q)
  BY DEF FileInv
<1>2. ASSUME q \in alone' PROVE q \in alone /\ length'[file[q].inode] = length[file[q].inode]
  BY <1>2 DEF Undisturbed
<1>3. ASSUME q \in alone' PROVE WrittenLength(q)' = WrittenLength(q)
  BY <1>2, <1>3 DEF WrittenLength
<1> QED
  BY <1>1, <1>2, <1>3 DEF Tells

(* A call on one object keeps the invariant if it leaves that object well. *)
LEMMA OneObject ==
  ASSUME FileInv, NEW o \in Objects, NEW new \in FileStates,
         file' = [file EXCEPT ![o] = new],
         new.open => new.inode \in Inodes /\ new.path \in Paths,
         dirent' \in [Paths -> Inodes \cup {Absent}], length' \in [Inodes -> Nat],
         \A q \in Objects \ {o} : q \in alone' => q \in Undisturbed(o),
         Tells(o)'
  PROVE  FileInv'
<1>1. file' \in [Objects -> FileStates] /\ file'[o] = new
      /\ \A q \in Objects \ {o} : file'[q] = file[q]
  BY DEF FileInv, FileTypes
<1>2. FileTypes'
  BY <1>1 DEF FileInv, FileTypes
<1>3. ASSUME NEW q \in Objects PROVE Tells(q)'
  <2>1. CASE q = o
    BY <2>1
  <2>2. CASE q # o
    BY <1>1, <2>2, Bystander
  <2> QED
    BY <2>1, <2>2
<1> QED
  BY <1>2, <1>3 DEF FileInv

LEMMA ShutIsClosed == Shut \in FileStates /\ ~Shut.open
BY DEF Shut, FileStates, OpenModes

(* One lemma for each operation that gives an object another stream, and   *)
(* for write.                                                              *)
LEMMA OpenKeeps ==
  ASSUME FileInv, NEW o \in Objects, NEW path \in Paths, NEW mode \in OpenModes,
         FileOpen(o, path, mode)
  PROVE  FileInv'
<1>1. PICK i \in IF dirent[path] = Absent THEN FreeInodes ELSE {dirent[path]} :
        /\ dirent' = [dirent EXCEPT ![path] = i]
        /\ length' = IF mode = "w" \/ dirent[path] = Absent
                     THEN [length EXCEPT ![i] = 0] ELSE length
        /\ file' = [file EXCEPT ![o] = [open |-> TRUE, inode |-> i, mode |-> mode, offset |-> 0,
                                        buffered |-> 0, path |-> path, size |-> length'[i],
                                        position |-> 0]]
        /\ alone' = Undisturbed(o) \cup {o}
  BY DEF FileOpen
<1> DEFINE new == [open |-> TRUE, inode |-> i, mode |-> mode, offset |-> 0, buffered |-> 0,
                   path |-> path, size |-> length'[i], position |-> 0]
<1>2. i \in Inodes
  BY DEF FreeInodes, FileInv, FileTypes
<1>3. length' \in [Inodes -> Nat] /\ dirent' \in [Paths -> Inodes \cup {Absent}]
  BY <1>1, <1>2 DEF FileInv, FileTypes
<1>4. new \in FileStates
  BY <1>2, <1>3 DEF FileStates
<1>5. file'[o] = new
  BY <1>1 DEF FileInv, FileTypes
<1>6. Tells(o)'
  BY <1>5 DEF Tells, WrittenLength
<1> HIDE DEF new
<1>7. file' = [file EXCEPT ![o] = new] /\ new.inode \in Inodes /\ new.path \in Paths
  BY <1>1, <1>2 DEF new
<1> QED
  BY <1>1, <1>3, <1>4, <1>6, <1>7, OneObject

LEMMA CloseKeeps ==
  ASSUME FileInv, NEW o \in Objects, FileClose(o)
  PROVE  FileInv'
<1>1. length' \in [Inodes -> Nat]
  BY FlushedLengths DEF FileClose, FileInv
<1>2. file'[o] = Shut /\ dirent' \in [Paths -> Inodes \cup {Absent}]
  BY DEF FileClose, FileInv, FileTypes
<1>3. Tells(o)'
  BY <1>2, ShutIsClosed DEF Tells
<1> QED
  BY <1>1, <1>2, <1>3, OneObject, ShutIsClosed DEF FileClose

LEMMA CopyKeeps ==
  ASSUME FileInv, NEW o \in Objects, NEW p \in Objects, FileCopy(o, p)
  PROVE  FileInv'
<1> DEFINE i == IF file[p].open THEN dirent[file[p].path] ELSE Absent
           new == IF i = Absent THEN Shut
                  ELSE [file[p] EXCEPT !.inode = i, !.mode = "r", !.offset = file[p].position,
                                       !.buffered = 0]
<1>1. /\ o # p /\ file' = [file EXCEPT ![o] = new]
      /\ alone' = (Undisturbed(o) \ {o})
               \cup (IF p \in Undisturbed(o) /\ Settled(p) /\ i = file[p].inode THEN {o} ELSE {})
      /\ Flushes(o) /\ dirent' = dirent
  BY DEF FileCopy
<1>2. /\ file[p] \in FileStates /\ (file[p].open => file[p].path \in Paths)
      /\ Absent \notin Inodes /\ i \in Inodes \cup {Absent} /\ file[p].position \in Nat
  BY FileAssumption DEF FileInv, FileTypes, FileStates
<1>3. new \in FileStates /\ (new.open => new.inode \in Inodes /\ new.path \in Paths)
  <2>1. CASE i = Absent
    BY <2>1, ShutIsClosed
  <2>2. CASE i # Absent
    BY <1>2, <2>2 DEF FileStates, OpenModes
  <2> QED
    BY <2>1, <2>2
<1>4. length' \in [Inodes -> Nat] /\ dirent' \in [Paths -> Inodes \cup {Absent}]
  BY <1>1, FlushedLengths DEF FileInv, FileTypes
<1>5. file'[o] = new
  BY <1>1 DEF FileInv, FileTypes
<1>6. Tells(o)'
  <2>1. CASE i = Absent
    BY <1>5, <2>1, ShutIsClosed DEF Tells
  <2>2. CASE i # Absent
    <3>1. /\ file'[o].offset = file[p].position /\ file'[o].position = file[p].position
          /\ file'[o].buffered = 0 /\ file'[o].inode = i /\ file'[o].size = file[p].size
          /\ file'[o].mode = "r"
      BY <1>2, <1>5, <2>2 DEF FileStates
    <3>2. ASSUME o \in alone' PROVE file[p].size = length'[i]
      <4>1. p \in Undisturbed(o) /\ Settled(p) /\ i = file[p].inode
        BY <1>1, <3>2
      <4>2. p \in alone /\ length'[i] = length[i]
        BY <1>1, <4>1 DEF Undisturbed, Settled
      <4>3. Tells(p)
        BY DEF FileInv
      <4> QED
        BY <4>1, <4>2, <4>3 DEF Tells, Settled, WrittenLength
    <3>3. WrittenLength(o)' = length'[i]
      BY <3>1 DEF WrittenLength
    <3> QED
      BY <3>1, <3>2, <3>3 DEF Tells
  <2> QED
    BY <2>1, <2>2
<1> HIDE DEF new, i
<1> QED
  BY <1>1, <1>3, <1>4, <1>6, OneObject

LEMMA MoveKeeps ==
  ASSUME FileInv, NEW o \in Objects, NEW p \in Objects, FileMove(o, p)
  PROVE  FileInv'
<1>1. /\ o # p /\ file' = [file EXCEPT ![o] = file[p], ![p] = Shut]
      /\ alone' = (Undisturbed(o) \ {o, p}) \cup (IF p \in Undisturbed(o) THEN {o} ELSE {})
      /\ Flushes(o) /\ dirent' = dirent
  BY DEF FileMove
<1>2. /\ file'[o] = file[p] /\ file'[p] = Shut /\ file' \in [Objects -> FileStates]
      /\ \A q \in Objects \ {o, p} : file'[q] = file[q]
  BY <1>1, ShutIsClosed DEF FileInv, FileTypes
<1>3. FileTypes'
  <2>1. length' \in [Inodes -> Nat]
    BY <1>1, FlushedLengths DEF FileInv
  <2> QED
    BY <1>1, <1>2, <2>1, ShutIsClosed DEF FileInv, FileTypes
<1>4. Tells(o)'
  <2>1. Tells(p)
    BY DEF FileInv
  <2>2. ASSUME o \in alone', file[p].open
        PROVE  p \in alone /\ WrittenLength(o)' = WrittenLength(p)
    <3>1. p \in alone /\ length'[file[p].inode] = length[file[p].inode]
      BY <1>1, <2>2 DEF Undisturbed
    <3> QED
      BY <1>2, <3>1 DEF WrittenLength
  <2> QED
    BY <1>2, <2>1, <2>2 DEF Tells
<1>5. Tells(p)'
  BY <1>2, ShutIsClosed DEF Tells
<1>6. ASSUME NEW q \in Objects \ {o, p} PROVE Tells(q)'
  BY <1>1, <1>2, Bystander
<1> QED
  BY <1>3, <1>4, <1>5, <1>6 DEF FileInv

LEMMA WriteKeeps ==
  ASSUME FileInv, NEW o \in Objects, NEW n \in Nat, FileWrite(o, n)
  PROVE  FileInv'
<1> DEFINE new == [file[o] EXCEPT !.offset = @ + n, !.buffered = @ + n,
                     !.position = file[o].position + n,
                     !.size = Larger(@, file[o].position + n)]
<1>1. /\ file[o].open /\ n > 0 /\ file' = [file EXCEPT ![o] = new]
      /\ dirent' = dirent /\ length' = length /\ alone' = alone
  BY DEF FileWrite
<1>2. file[o] \in FileStates /\ file[o].inode \in Inodes /\ file[o].path \in Paths
  BY <1>1 DEF FileInv, FileTypes
<1>3. new \in FileStates /\ new.inode = file[o].inode /\ new.path = file[o].path
      /\ new.mode = file[o].mode /\ new.offset = file[o].offset + n
      /\ new.buffered = file[o].buffered + n /\ new.position = file[o].position + n
      /\ new.size = Larger(file[o].size, file[o].position + n)
  <2>1. /\ file[o].offset + n \in Nat /\ file[o].buffered + n \in Nat
        /\ file[o].position + n \in Nat /\ Larger(file[o].size, file[o].position + n) \in Nat
    BY <1>2 DEF FileStates, Larger
  <2> QED
    BY <1>2, <2>1 DEF FileStates
<1>4. file'[o] = new
  BY <1>1 DEF FileInv, FileTypes
<1> HIDE DEF new
<1>5. Tells(o)'
  <2>1. /\ file[o].offset \in Nat /\ file[o].buffered \in Nat /\ file[o].position \in Nat
        /\ file[o].size \in Nat /\ length[file[o].inode] \in Nat
    BY <1>2 DEF FileStates, FileInv, FileTypes
  <2> SUFFICES ASSUME file[o].mode # "a"
               PROVE  /\ new.position = new.offset
                      /\ o \in alone => new.size = WrittenLength(o)'
    BY <1>1, <1>3, <1>4 DEF Tells
  <2>2. Tells(o)
    BY DEF FileInv
  <2>3. file[o].position = file[o].offset
    BY <1>1, <2>2 DEF Tells
  <2>4. WrittenLength(o)' = Larger(length[file[o].inode], file[o].offset + n)
    BY <1>1, <1>3, <1>4, <2>1 DEF WrittenLength
  <2>5. ASSUME o \in alone
        PROVE  file[o].size = IF file[o].buffered = 0 THEN length[file[o].inode]
                              ELSE Larger(length[file[o].inode], file[o].offset)
    BY <1>1, <2>2, <2>5 DEF Tells, WrittenLength
  <2> QED
    BY <1>3, <2>1, <2>3, <2>4, <2>5 DEF Larger
<1>6. \A q \in Objects \ {o} : q \in alone' => q \in Undisturbed(o)
  BY <1>1 DEF Undisturbed
<1> QED
  BY <1>1, <1>2, <1>3, <1>5, <1>6, OneObject DEF FileInv, FileTypes

(* The calls that flush, then move the stream and position_ together.      *)
LEMMA MovesKeep ==
  ASSUME FileInv, NEW o \in Objects, NEW to \in Nat, NEW at \in Nat, file[o].open, Flushes(o),
         file[o].mode # "a" => to = at,
         file' = [file EXCEPT ![o] = [Flushed(o) EXCEPT !.offset = to, !.position = at]],
         alone' = Undisturbed(o), dirent' = dirent
  PROVE  FileInv'
<1> DEFINE new == [Flushed(o) EXCEPT !.offset = to, !.position = at]
<1>1. Flushed(o) \in FileStates /\ Flushed(o).inode = file[o].inode
      /\ Flushed(o).mode = file[o].mode /\ Flushed(o).path = file[o].path
      /\ Flushed(o).size = file[o].size /\ Flushed(o).buffered = 0
  BY FlushedStream DEF FileInv
<1>2. new \in FileStates /\ new.inode = file[o].inode /\ new.mode = file[o].mode
      /\ new.path = file[o].path /\ new.size = file[o].size /\ new.buffered = 0
      /\ new.offset = to /\ new.position = at
  BY <1>1 DEF FileStates
<1>3. file'[o] = new /\ file[o].inode \in Inodes /\ file[o].path \in Paths
  BY DEF FileInv, FileTypes
<1>4. length' \in [Inodes -> Nat] /\ length'[file[o].inode] = WrittenLength(o)
  BY FlushedLengths DEF FileInv
<1>5. file' = [file EXCEPT ![o] = new]
  OBVIOUS
<1> HIDE DEF new
<1>6. Tells(o)'
  <2>1. Tells(o) /\ (o \in alone' => o \in alone)
    BY DEF FileInv, Undisturbed
  <2>2. ASSUME new.mode # "a" PROVE WrittenLength(o)' = WrittenLength(o)
    <3>1. file'[o].buffered = 0 /\ file'[o].inode = file[o].inode /\ file'[o].mode # "a"
      BY <1>2, <1>3, <2>2
    <3>2. WrittenLength(o)' = length'[file[o].inode]
      BY <3>1 DEF WrittenLength
    <3> QED
      BY <1>4, <3>2
  <2> QED
    BY <1>2, <1>3, <2>1, <2>2 DEF Tells
<1> QED
  BY <1>2, <1>3, <1>4, <1>5, <1>6, OneObject DEF FileInv, FileTypes

(* Every call on a file or on the file system keeps the invariant.         *)
LEMMA FileInvInductive ==
  ASSUME FileInv, [FileNext]_file_vars
  PROVE  FileInv'
<1>0. ASSUME NEW o \in Objects, file[o].open
      PROVE  /\ file[o].offset \in Nat /\ file[o].position \in Nat /\ WrittenLength(o) \in Nat
             /\ Flushed(o) \in FileStates /\ Flushed(o).position = file[o].position
             /\ Flushed(o).offset \in Nat
             /\ file[o].mode # "a" => /\ Flushed(o).offset = file[o].offset
                                      /\ file[o].position = file[o].offset
  <2>1. file[o] \in FileStates /\ Tells(o)
    BY DEF FileInv, FileTypes
  <2>2. Flushed(o) \in FileStates
    BY <1>0, FlushedStream DEF FileInv
  <2>3. file[o].offset \in Nat /\ file[o].position \in Nat /\ Flushed(o).offset \in Nat
    BY <2>1, <2>2 DEF FileStates
  <2> QED
    BY <1>0, <2>1, <2>2, <2>3, FlushedStream, WrittenIsNat DEF FileInv, Tells
<1>1. ASSUME NEW o \in Objects, NEW n \in Counts, FileRead(o, n) PROVE FileInv'
  <2>1. n \in Nat
    BY FileAssumption
  <2>2. PICK got \in 0..n :
          file' = [file EXCEPT ![o] = [Flushed(o) EXCEPT !.offset = @ + got,
                                                         !.position = @ + got]]
    BY <1>1 DEF FileRead
  <2>3. file[o].open /\ Flushes(o) /\ alone' = Undisturbed(o) /\ dirent' = dirent
    BY <1>1 DEF FileRead
  <2> DEFINE to == Flushed(o).offset + got
             at == Flushed(o).position + got
  <2>4. got \in Nat
    BY <2>1
  <2>5. to \in Nat /\ at \in Nat /\ (file[o].mode # "a" => to = at)
    BY <1>0, <2>3, <2>4
  <2>6. file' = [file EXCEPT ![o] = [Flushed(o) EXCEPT !.offset = to, !.position = at]]
    BY <1>0, <2>2, <2>3 DEF FileStates
  <2> HIDE DEF to, at
  <2> QED
    BY <2>3, <2>5, <2>6, MovesKeep
<1>2. ASSUME NEW o \in Objects, FileFlush(o) PROVE FileInv'
  <2>1. file[o].open /\ Flushes(o) /\ alone' = Undisturbed(o) /\ dirent' = dirent
        /\ file' = [file EXCEPT ![o] = Flushed(o)]
    BY <1>2 DEF FileFlush
  <2> DEFINE to == Flushed(o).offset
             at == Flushed(o).position
  <2>2. to \in Nat /\ at \in Nat /\ (file[o].mode # "a" => to = at)
    BY <1>0, <2>1
  <2>3. Flushed(o) = [Flushed(o) EXCEPT !.offset = to, !.position = at]
    BY <1>0, <2>1 DEF FileStates
  <2>4. file' = [file EXCEPT ![o] = [Flushed(o) EXCEPT !.offset = to, !.position = at]]
    BY <2>1, <2>3
  <2> HIDE DEF to, at
  <2> QED
    BY <2>1, <2>2, <2>4, MovesKeep
<1>3. ASSUME NEW o \in Objects, NEW n \in Counts, NEW mode \in {"set", "cur", "end"},
             FileSeek(o, n, mode)
      PROVE  FileInv'
  <2> DEFINE to == (CASE mode = "set" -> 0 [] mode = "cur" -> Flushed(o).offset
                      [] mode = "end" -> WrittenLength(o)) + n
  <2>1. file[o].open /\ Flushes(o) /\ alone' = Undisturbed(o) /\ dirent' = dirent
        /\ file' = [file EXCEPT ![o] = [Flushed(o) EXCEPT !.offset = to, !.position = to]]
    BY <1>3 DEF FileSeek
  <2>2. n \in Nat
    BY FileAssumption
  <2>3. to \in Nat
    BY <1>0, <2>1, <2>2
  <2> HIDE DEF to
  <2> QED
    BY <2>1, <2>3, MovesKeep
<1>4. ASSUME NEW o \in Objects, NEW n \in Counts, FileWrite(o, n) PROVE FileInv'
  BY <1>4, WriteKeeps, FileAssumption
<1>5. ASSUME NEW path \in Paths, FsRemove(path) \/ \E to \in Paths : FsRename(path, to)
      PROVE  FileInv'
  <2>1. file' = file /\ length' = length /\ alone' = alone
    BY <1>5 DEF FsRemove, FsRename
  <2>2. dirent' \in [Paths -> Inodes \cup {Absent}]
    BY <1>5 DEF FsRemove, FsRename, FileInv, FileTypes
  <2> QED
    BY <2>1, <2>2 DEF FileInv, FileTypes, Tells, WrittenLength
<1>6. CASE UNCHANGED file_vars
  BY <1>6 DEF file_vars, FileInv, FileTypes, Tells, WrittenLength
<1>7. CASE FileNext
  <2>1. FileCall
    BY <1>7 DEF FileNext
  <2>2. ASSUME NEW o \in Objects, NEW path \in Paths, NEW mode \in OpenModes,
               FileOpen(o, path, mode)
        PROVE  FileInv'
    BY <2>2, OpenKeeps
  <2>3. ASSUME NEW o \in Objects, NEW p \in Objects, FileCopy(o, p) \/ FileMove(o, p)
        PROVE  FileInv'
    BY <2>3, CopyKeeps, MoveKeeps
  <2> QED
    BY <2>1, <2>2, <2>3, <1>1, <1>2, <1>3, <1>4, <1>5, CloseKeeps DEF FileCall
<1> QED
  BY <1>6, <1>7

(* A File's position_ is where its stream is, and its size_ what the file  *)
(* holds while no other object changes it, for any objects, paths, files   *)
(* and sizes (FS.h:413-505).                                               *)
THEOREM FilesTellThemselves == ServicesSpec => []FileTellsItself
<1>1. ServicesInit => FileInv
  <2> SUFFICES ASSUME ServicesInit PROVE FileInv
    OBVIOUS
  <2>1. /\ dirent = [p \in Paths |-> Absent] /\ length = [i \in Inodes |-> 0]
        /\ file = [o \in Objects |-> Shut]
    BY DEF ServicesInit, FileInit
  <2> QED
    BY <2>1, ShutIsClosed DEF FileInv, FileTypes, Tells
<1>2. FileInv /\ [ServicesNext]_services_vars => FileInv'
  BY ServicesStep, FileInvInductive
<1>3. FileInv => FileTellsItself
  <2> SUFFICES ASSUME FileInv, NEW o \in Objects, file[o].open, file[o].mode # "a"
               PROVE  /\ file[o].position = file[o].offset
                      /\ o \in alone =>
                           /\ file[o].size = WrittenLength(o)
                           /\ FileAvailable(o) = Larger(0, WrittenLength(o) - file[o].offset)
    BY DEF FileTellsItself
  <2>1. Tells(o) /\ file[o] \in FileStates
    BY DEF FileInv, FileTypes
  <2>2. file[o].size \in Nat /\ file[o].position \in Nat
    BY <2>1 DEF FileStates
  <2> QED
    BY <2>1, <2>2 DEF Tells, FileAvailable, Larger
<1> QED
  BY <1>1, <1>2, <1>3, PTL DEF ServicesSpec
------------------------------------------------------------------------------
NonZero == Nat \ {0}

TcpInv ==
  /\ sock \in BOOLEAN /\ peek_byte \in Nat /\ (peek_byte # 0 => sock)
  /\ kernel \in Seq(NonZero) /\ peer \in {"open", "closed", "reset"}
  /\ ~sock => kernel = <<>> /\ peer = "open"
  /\ from_peer \in Nat
  /\ unsent \in Seq(Nat) /\ sent \in Seq(Nat) /\ to_peer \in Nat /\ at_peer \in Seq(Nat)

(* Cutting a sequence in two, and putting a byte before it.                *)
LEMMA CutSeq ==
  ASSUME NEW S, NEW s \in Seq(S), NEW n \in 0..Len(s)
  PROVE  /\ SubSeq(s, 1, n) \in Seq(S) /\ SubSeq(s, n + 1, Len(s)) \in Seq(S)
         /\ Len(SubSeq(s, 1, n)) = n /\ Len(SubSeq(s, n + 1, Len(s))) = Len(s) - n
OBVIOUS

(* Nothing, and all, of a sequence.                                        *)
LEMMA WholeSeq ==
  ASSUME NEW S, NEW s \in Seq(S)
  PROVE  /\ SubSeq(s, 1, 0) = <<>> /\ SubSeq(s, 1, Len(s)) = s
         /\ SubSeq(s, Len(s) + 1, Len(s)) = <<>> /\ SubSeq(s, 0 + 1, Len(s)) = s
         /\ <<>> \o s = s
OBVIOUS

LEMMA FirstOne ==
  ASSUME NEW S, NEW s \in Seq(S), Len(s) > 0
  PROVE  SubSeq(s, 1, 1) = <<s[1]>>
<1>1. SubSeq(s, 1, 1) \in Seq(S) /\ Len(SubSeq(s, 1, 1)) = 1
  <2>1. 1 \in 0..Len(s)
    OBVIOUS
  <2> QED
    BY <2>1, CutSeq
<1>2. SubSeq(s, 1, 1)[1] = s[1]
  OBVIOUS
<1>3. s[1] \in S
  OBVIOUS
<1> DEFINE u == SubSeq(s, 1, 1)
           v == <<s[1]>>
<1>4. v \in Seq(S) /\ Len(v) = 1 /\ v[1] = s[1]
  BY <1>3
<1>5. u \in Seq(S) /\ Len(u) = 1 /\ u[1] = s[1]
  BY <1>1, <1>2
<1> HIDE DEF u, v
<1>6. u = v
  BY <1>4, <1>5
<1> QED
  BY <1>6 DEF u, v

LEMMA OneByte ==
  ASSUME NEW S, NEW b \in S, NEW s \in Seq(S)
  PROVE  /\ <<b>> \o s \in Seq(S) /\ Len(<<b>> \o s) = 1 + Len(s) /\ <<b>> \o s # <<>>
         /\ SubSeq(<<b>> \o s, 1, 1) = <<b>>
         /\ SubSeq(<<b>> \o s, 1 + 1, 1 + Len(s)) = s
<1>1. <<b>> \o s \in Seq(S) /\ Len(<<b>> \o s) = 1 + Len(s) /\ <<b>> \o s # <<>>
  OBVIOUS
<1>2. SubSeq(<<b>> \o s, 1, 1) = <<b>>
  <2>1. (<<b>> \o s)[1] = b
    OBVIOUS
  <2> DEFINE u == <<b>> \o s
  <2>2. u \in Seq(S) /\ Len(u) > 0 /\ u[1] = b
    BY <1>1, <2>1
  <2> HIDE DEF u
  <2>3. SubSeq(u, 1, 1) = <<u[1]>>
    BY <2>2, FirstOne
  <2> QED
    BY <2>2, <2>3 DEF u
<1>3. SubSeq(<<b>> \o s, 1 + 1, 1 + Len(s)) = s
  <2> DEFINE u == SubSeq(<<b>> \o s, 1 + 1, 1 + Len(s))
  <2>1. Len(u) = Len(s) /\ u \in Seq(S)
    BY <1>1
  <2>2. \A i \in 1..Len(s) : u[i] = s[i]
    BY <1>1
  <2> QED
    BY <2>1, <2>2
<1> QED
  BY <1>1, <1>2, <1>3

LEMMA OneByteMore ==
  ASSUME NEW S, NEW b \in S, NEW s \in Seq(S), NEW n \in 0..Len(s)
  PROVE  /\ SubSeq(<<b>> \o s, 1, 1 + n) = <<b>> \o SubSeq(s, 1, n)
         /\ SubSeq(<<b>> \o s, 1 + n + 1, 1 + Len(s)) = SubSeq(s, n + 1, Len(s))
OBVIOUS

(* The first element, and the rest.                                        *)
LEMMA FirstOff ==
  ASSUME NEW S, NEW s \in Seq(S), s # <<>>
  PROVE  /\ Head(s) \in S /\ Tail(s) \in Seq(S) /\ <<Head(s)>> \o Tail(s) = s
         /\ SubSeq(s, 1, 1) = <<Head(s)>> /\ SubSeq(s, 1 + 1, Len(s)) = Tail(s)
         /\ Len(s) > 0
<1>1. Len(s) > 0
  OBVIOUS
<1>2. Head(s) \in S /\ Tail(s) \in Seq(S) /\ Len(Tail(s)) = Len(s) - 1
  BY <1>1
<1>3. \A i \in 1..Len(s) - 1 : Tail(s)[i] = s[i + 1]
  BY <1>1
<1>4. Head(s) = s[1]
  BY <1>1
<1>5. <<Head(s)>> \o Tail(s) = s
  <2> DEFINE u == <<Head(s)>> \o Tail(s)
  <2>1. u \in Seq(S) /\ Len(u) = Len(s)
    BY <1>2
  <2>2. u[1] = s[1]
    BY <1>2, <1>4
  <2>3. \A i \in 2..Len(s) : u[i] = s[i]
    BY <1>2, <1>3
  <2>4. \A i \in 1..Len(s) : u[i] = s[i]
    BY <2>2, <2>3
  <2> QED
    BY <2>1, <2>4
<1>6. SubSeq(s, 1, 1) = <<Head(s)>>
  BY <1>1, <1>4, FirstOne
<1>7. SubSeq(s, 1 + 1, Len(s)) = Tail(s)
  <2>1. SubSeq(s, 1 + 1, Len(s)) \in Seq(S) /\ Len(SubSeq(s, 1 + 1, Len(s))) = Len(s) - 1
    <3>1. 1 \in 0..Len(s)
      BY <1>1
    <3> QED
      BY <3>1, CutSeq
  <2>2. \A i \in 1..Len(s) - 1 : SubSeq(s, 1 + 1, Len(s))[i] = Tail(s)[i]
    BY <1>1, <1>3
  <2> QED
    BY <1>2, <2>1, <2>2
<1> QED
  BY <1>1, <1>2, <1>5, <1>6, <1>7

LEMMA OneAppended ==
  ASSUME NEW S, NEW b \in S, NEW s \in Seq(S)
  PROVE  /\ Append(s, b) \in Seq(S) /\ Len(Append(s, b)) = Len(s) + 1
         /\ SubSeq(Append(s, b), 1, Len(s)) = s
OBVIOUS

LEMMA AppendAfter ==
  ASSUME NEW S, NEW a \in S, NEW b \in S, NEW s \in Seq(S)
  PROVE  <<a>> \o Append(s, b) = Append(<<a>> \o s, b)
OBVIOUS

LEMMA Joined ==
  ASSUME NEW S, NEW s \in Seq(S), NEW t \in Seq(S)
  PROVE  s \o t \in Seq(S)
OBVIOUS

(* What the client holds, with and without a byte looked at.               *)
LEMMA HeldIs ==
  ASSUME NEW b \in Nat, NEW k \in Seq(NonZero)
  PROVE  LET h == (IF b = 0 THEN <<>> ELSE <<b>>) \o k
         IN /\ h \in Seq(NonZero)
            /\ b = 0 => h = k
            /\ b # 0 => /\ h = <<b>> \o k /\ h # <<>> /\ Len(h) = 1 + Len(k)
                        /\ SubSeq(h, 1, 1) = <<b>> /\ SubSeq(h, 1 + 1, Len(h)) = k
<1>1. CASE b = 0
  BY <1>1, WholeSeq
<1>2. CASE b # 0
  <2>1. b \in NonZero
    BY <1>2 DEF NonZero
  <2> HIDE DEF NonZero
  <2>2. /\ <<b>> \o k \in Seq(NonZero) /\ Len(<<b>> \o k) = 1 + Len(k) /\ <<b>> \o k # <<>>
        /\ SubSeq(<<b>> \o k, 1, 1) = <<b>>
        /\ SubSeq(<<b>> \o k, 1 + 1, 1 + Len(k)) = k
    BY <2>1, OneByte
  <2> QED
    BY <1>2, <2>2
<1> QED
  BY <1>1, <1>2

(* Every call on the client or the server, and every step of a peer, keeps *)
(* the types of what the client holds.                                     *)
LEMMA TcpInvInductive ==
  ASSUME TcpInv, [TcpNext]_tcp_vars
  PROVE  TcpInv'
<1>1. ASSUME NEW n \in 0..Len(kernel)
      PROVE  SubSeq(kernel, n + 1, Len(kernel)) \in Seq(NonZero)
  BY CutSeq DEF TcpInv
<1>2. kernel # <<>> => Head(kernel) \in NonZero /\ Tail(kernel) \in Seq(NonZero)
  BY FirstOff DEF TcpInv
<1>3. <<>> \in Seq(NonZero) /\ <<>> \in Seq(Nat)
  OBVIOUS
<1>4. CASE UNCHANGED tcp_vars
  BY <1>4 DEF tcp_vars, tcp_read, tcp_write, TcpInv
<1>5. CASE TcpConnect \/ TcpStop \/ ServerAvailable
  <2>1. sock' \in BOOLEAN
    <3>1. (listening /\ pending > 0) \in BOOLEAN
      OBVIOUS
    <3> QED
      BY <1>5, <3>1, Zenon DEF TcpConnect, TcpStop, ServerAvailable
  <2>2. /\ peek_byte' = 0 /\ kernel' = <<>> /\ peer' = "open" /\ from_peer' = from_peer
        /\ UNCHANGED tcp_write
    BY <1>5, Zenon DEF TcpConnect, TcpStop, ServerAvailable
  <2> QED
    BY <1>3, <2>1, <2>2 DEF tcp_write, TcpInv
<1>6. CASE TcpReadByte
  <2>1. CASE kernel' = kernel
    BY <1>3, <1>6, <2>1 DEF TcpReadByte, KeepSocket, CloseSocket, tcp_write, TcpInv, Recv
  <2>2. CASE kernel' # kernel
    BY <1>2, <1>3, <1>6, <2>2 DEF TcpReadByte, KeepSocket, CloseSocket, tcp_write, TcpInv, Recv
  <2> QED
    BY <2>1, <2>2
<1>7. ASSUME NEW size \in 1..MaxFromPeer, TcpReadBlock(size) PROVE TcpInv'
  <2>1. /\ peek_byte' = 0 /\ from_peer' = from_peer /\ unsent' = unsent /\ sent' = sent
        /\ to_peer' = to_peer /\ at_peer' = at_peer
    BY <1>7 DEF TcpReadBlock, tcp_write
  <2>2. CASE KeepSocket \/ CloseSocket
    BY <1>3, <2>1, <2>2 DEF KeepSocket, CloseSocket, TcpInv
  <2>3. CASE ~(KeepSocket \/ CloseSocket)
    <3>1. PICK n \in 1..size - Len(LookAhead) :
            /\ n <= Len(kernel)
            /\ kernel' = SubSeq(kernel, n + 1, Len(kernel))
            /\ UNCHANGED <<sock, peer>> /\ sock
      BY <1>7, <2>3 DEF TcpReadBlock
    <3>2. kernel' \in Seq(NonZero)
      <4>1. kernel \in Seq(NonZero) /\ Len(LookAhead) \in Nat /\ n \in 0..Len(kernel)
        BY <3>1 DEF TcpInv, LookAhead
      <4> QED
        BY <1>1, <3>1, <4>1
    <3> QED
      BY <2>1, <3>1, <3>2 DEF TcpInv
  <2> QED
    BY <2>2, <2>3
<1>8. CASE TcpPeek \/ TcpConnected
  <2>1. NonZero \subseteq Nat
    BY DEF NonZero
  <2>2. /\ from_peer' = from_peer /\ unsent' = unsent /\ sent' = sent
        /\ to_peer' = to_peer /\ at_peer' = at_peer
    BY <1>8 DEF TcpPeek, TcpConnected, tcp_write
  <2>3. CASE peek_byte = 0 /\ sock /\ Recv = "data"
    <3>1. kernel # <<>>
      BY <2>3 DEF Recv
    <3>2. peek_byte' = Head(kernel) /\ kernel' = Tail(kernel) /\ sock' = sock /\ peer' = peer
      BY <1>8, <2>3 DEF TcpPeek, TcpConnected
    <3> QED
      BY <1>2, <2>1, <2>2, <2>3, <3>1, <3>2 DEF TcpInv
  <2>4. CASE ~(peek_byte = 0 /\ sock /\ Recv = "data")
    <3>1. /\ peek_byte' = peek_byte
          /\ \/ CloseSocket /\ peek_byte = 0
             \/ sock' = sock /\ kernel' = kernel /\ peer' = peer
             \/ sock' = sock /\ kernel' = kernel /\ peer' = "closed" /\ sock
      BY <1>8, <2>4 DEF TcpPeek, TcpConnected, KeepSocket
    <3> QED
      BY <1>3, <2>2, <3>1 DEF TcpInv, CloseSocket
  <2> QED
    BY <2>3, <2>4
<1>9. CASE TcpAvailable \/ ServerBegin \/ ServerEnd \/ PeerCalls
  BY <1>9 DEF TcpAvailable, ServerBegin, ServerEnd, PeerCalls, tcp_read, tcp_write, TcpInv
<1>10. ASSUME NEW size \in 1..MaxToPeer, TcpWrite(size) PROVE TcpInv'
  <2>1. size \in Nat /\ to_peer \in Nat
    BY TcpAssumption DEF TcpInv
  <2>2. [i \in 1..size |-> to_peer + i] \in Seq(Nat) /\ to_peer + size \in Nat
    BY <2>1
  <2> QED
    BY <1>10, <2>2 DEF TcpWrite, tcp_read, TcpInv
<1>11. CASE SendSome
  <2>1. PICK n \in 1..Len(unsent) :
          /\ sent' = sent \o SubSeq(unsent, 1, n)
          /\ at_peer' = at_peer \o SubSeq(unsent, 1, n)
          /\ unsent' = SubSeq(unsent, n + 1, Len(unsent))
    BY <1>11 DEF SendSome
  <2>2. n \in 0..Len(unsent)
    BY DEF TcpInv
  <2>3. SubSeq(unsent, 1, n) \in Seq(Nat) /\ SubSeq(unsent, n + 1, Len(unsent)) \in Seq(Nat)
    BY <2>2, CutSeq DEF TcpInv
  <2>4. sent' \in Seq(Nat) /\ at_peer' \in Seq(Nat) /\ unsent' \in Seq(Nat)
    BY <2>1, <2>3, Joined DEF TcpInv
  <2> QED
    BY <1>11, <2>4 DEF SendSome, tcp_read, TcpInv
<1>12. CASE WriteReturns
  BY <1>3, <1>12 DEF WriteReturns, TcpInv
<1>13. CASE PeerSends
  <2>1. from_peer + 1 \in NonZero /\ from_peer + 1 \in Nat
    BY DEF NonZero, TcpInv
  <2>2. Append(kernel, from_peer + 1) \in Seq(NonZero)
    BY <2>1, OneAppended DEF TcpInv
  <2> QED
    BY <1>13, <2>1, <2>2 DEF PeerSends, tcp_write, TcpInv
<1>14. CASE PeerCloses
  BY <1>3, <1>14 DEF PeerCloses, tcp_write, TcpInv
<1> QED
  BY <1>4, <1>5, <1>6, <1>7, <1>8, <1>9, <1>10, <1>11, <1>12, <1>13, <1>14 DEF TcpNext

Held == LookAhead \o kernel
Link == IF ~sock THEN "down" ELSE IF peer = "open" THEN "up" ELSE "ending"

LEMMA HeldFacts ==
  ASSUME TcpInv
  PROVE  /\ Held \in Seq(NonZero) /\ Held' = LookAhead' \o kernel'
         /\ peek_byte = 0 => Held = kernel /\ LookAhead = <<>>
         /\ peek_byte # 0 => /\ Held = <<peek_byte>> \o kernel /\ LookAhead = <<peek_byte>>
                             /\ Held # <<>> /\ Len(Held) = 1 + Len(kernel)
                             /\ SubSeq(Held, 1, 1) = LookAhead
                             /\ SubSeq(Held, 1 + 1, Len(Held)) = kernel
         /\ ~sock => Held = <<>>
         /\ Len(Held) \in Nat /\ SubSeq(Held, 1, 0) = <<>>
         /\ SubSeq(Held, 0 + 1, Len(Held)) = Held
<1>1. peek_byte \in Nat /\ kernel \in Seq(NonZero) /\ (~sock => peek_byte = 0 /\ kernel = <<>>)
  BY DEF TcpInv
<1>2. /\ Held \in Seq(NonZero)
      /\ peek_byte = 0 => Held = kernel
      /\ peek_byte # 0 => /\ Held = <<peek_byte>> \o kernel
                          /\ Held # <<>> /\ Len(Held) = 1 + Len(kernel)
                          /\ SubSeq(Held, 1, 1) = <<peek_byte>>
                          /\ SubSeq(Held, 1 + 1, Len(Held)) = kernel
  BY <1>1, HeldIs DEF Held, LookAhead
<1>3. SubSeq(Held, 1, 0) = <<>> /\ SubSeq(Held, 0 + 1, Len(Held)) = Held
  BY <1>2, WholeSeq
<1>4. Len(Held) \in Nat
  BY <1>2
<1> QED
  BY <1>1, <1>2, <1>3, <1>4 DEF LookAhead, Held

(* A client that has nothing beside the socket: what it holds next.        *)
LEMMA HeldNext ==
  ASSUME TcpInv'
  PROVE  /\ Held' \in Seq(NonZero) /\ (peek_byte' = 0 => Held' = kernel')
         /\ peek_byte' # 0 => Held' = <<peek_byte'>> \o kernel'
<1>1. peek_byte' \in Nat /\ kernel' \in Seq(NonZero)
  BY DEF TcpInv
<1> QED
  BY <1>1, HeldIs DEF Held, LookAhead

(* The steps of ByteStream in the terms of the client.                     *)
Noticed == Link' = Link \/ (Link = "ending" /\ Held' = <<>> /\ Link' = "down")
QuietWrite == UNCHANGED <<unsent, sent, at_peer>>

StreamTakes(n) ==
  /\ Held # <<>> => n > 0
  /\ replied' = [of |-> "read", is |-> SubSeq(Held, 1, n)]
  /\ Held' = SubSeq(Held, n + 1, Len(Held))
  /\ Noticed /\ QuietWrite

LEMMA MapsReads ==
  ASSUME \/ /\ Held' = <<>> /\ Link' \in {"up", "ending", "down"}
            /\ UNCHANGED replied /\ QuietWrite
         \/ \E n \in 0..Len(Held) : StreamTakes(n)
         \/ /\ replied' = [of |-> "peek", is |-> SubSeq(Held, 1, IF Held = <<>> THEN 0 ELSE 1)]
            /\ Held' = Held /\ Noticed /\ QuietWrite
         \/ /\ replied' = [of |-> "available", is |-> Len(Held)]
            /\ Held' = Held /\ Link' = Link /\ QuietWrite
         \/ /\ replied' = [of |-> "connected", is |-> Held # <<>> \/ Link = "up"]
            /\ Held' = Held /\ Noticed /\ QuietWrite
  PROVE  TcpStream!BSNext
BY Zenon DEF TcpStream!BSNext, TcpStream!Opens, TcpStream!Takes, TcpStream!Looks, TcpStream!Says,
       TcpStream!Asks, TcpStream!CountsHeld,
       TcpStream!Prefix, TcpStream!Notices, Held, Link, StreamTakes, Noticed, QuietWrite

(* The steps of the peer, and of a write, likewise.                        *)
LEMMA MapsPeer ==
  ASSUME \/ /\ Link = "up" /\ Link' = Link
            /\ Len(Held') = Len(Held) + 1 /\ SubSeq(Held', 1, Len(Held)) = Held
            /\ UNCHANGED replied /\ QuietWrite
         \/ /\ Link = "up" /\ Link' = "ending"
            /\ \E n \in 0..Len(Held) : Held' = SubSeq(Held, 1, n)
            /\ UNCHANGED replied /\ QuietWrite
  PROVE  TcpStream!BSNext
BY Zenon DEF TcpStream!BSNext, TcpStream!Arrives, TcpStream!PeerGoes, TcpStream!Prefix,
       Held, Link, QuietWrite

LEMMA MapsWrites ==
  ASSUME Held' = Held /\ Link' = Link,
         \/ /\ unsent = <<>> /\ sent = <<>> /\ unsent' # <<>> /\ sent' = <<>>
            /\ UNCHANGED <<replied, at_peer>>
         \/ /\ \E n \in 1..Len(unsent) :
                 /\ at_peer' = at_peer \o SubSeq(unsent, 1, n)
                 /\ unsent' = SubSeq(unsent, n + 1, Len(unsent))
                 /\ sent' = sent \o SubSeq(unsent, 1, n)
            /\ UNCHANGED replied
         \/ /\ replied' = [of |-> "write", is |-> Len(sent)]
            /\ unsent' = <<>> /\ sent' = <<>> /\ at_peer' = at_peer
  PROVE  TcpStream!BSNext
<1>1. [rest |-> unsent, sent |-> sent].rest = unsent /\ [rest |-> unsent, sent |-> sent].sent = sent
  OBVIOUS
<1>2. /\ [rest |-> unsent, sent |-> sent]'.rest = unsent'
      /\ [rest |-> unsent, sent |-> sent]'.sent = sent'
  OBVIOUS
<1>3. CASE /\ unsent = <<>> /\ sent = <<>> /\ unsent' # <<>> /\ sent' = <<>>
           /\ UNCHANGED <<replied, at_peer>>
  <2>1. TcpStream!Writes
    BY <1>1, <1>2, <1>3, Zenon DEF TcpStream!Writes, TcpStream!NoWrite, Held, Link
  <2> QED
    BY <2>1 DEF TcpStream!BSNext
<1>4. CASE /\ \E n \in 1..Len(unsent) :
                 /\ at_peer' = at_peer \o SubSeq(unsent, 1, n)
                 /\ unsent' = SubSeq(unsent, n + 1, Len(unsent))
                 /\ sent' = sent \o SubSeq(unsent, 1, n)
           /\ UNCHANGED replied
  <2>1. TcpStream!Delivers
    BY <1>1, <1>2, <1>4, Zenon DEF TcpStream!Delivers, TcpStream!Prefix, Held, Link
  <2> QED
    BY <2>1 DEF TcpStream!BSNext
<1>5. CASE /\ replied' = [of |-> "write", is |-> Len(sent)]
           /\ unsent' = <<>> /\ sent' = <<>> /\ at_peer' = at_peer
  <2>1. TcpStream!WriteEnds
    BY <1>1, <1>2, <1>5, Zenon
       DEF TcpStream!WriteEnds, TcpStream!NoWrite, TcpStream!Says, Held, Link
  <2> QED
    BY <2>1 DEF TcpStream!BSNext
<1> QED
  BY <1>3, <1>4, <1>5

(* A read: the byte looked at and n from the socket.                       *)
LEMMA ReadsTake ==
  ASSUME TcpInv, TcpInv', NEW n \in 0..Len(kernel), peek_byte' = 0,
         replied' = [of |-> "read", is |-> LookAhead \o SubSeq(kernel, 1, n)],
         kernel' = SubSeq(kernel, n + 1, Len(kernel)), QuietWrite,
         peek_byte = 0 /\ kernel # <<>> => n > 0,
         Noticed
  PROVE  TcpStream!BSNext
<1>1. kernel \in Seq(NonZero) /\ Len(kernel) \in Nat /\ n \in Nat /\ n <= Len(kernel)
  BY DEF TcpInv
<1>2. Held' = kernel'
  BY HeldNext
<1>3. CASE peek_byte = 0
  <2>1. Held = kernel /\ LookAhead = <<>>
    BY <1>3, HeldFacts
  <2>2. LookAhead \o SubSeq(kernel, 1, n) = SubSeq(kernel, 1, n)
    BY <1>1, <2>1, CutSeq, WholeSeq
  <2>3. StreamTakes(n)
    BY <1>2, <1>3, <2>1, <2>2 DEF StreamTakes
  <2> QED
    BY <2>1, <2>3, MapsReads
<1>4. CASE peek_byte # 0
  <2>1. peek_byte \in NonZero
    BY <1>4 DEF TcpInv, NonZero
  <2>2. Held = <<peek_byte>> \o kernel /\ LookAhead = <<peek_byte>> /\ Len(Held) = 1 + Len(kernel)
    BY <1>4, HeldFacts
  <2>3. /\ SubSeq(Held, 1, 1 + n) = LookAhead \o SubSeq(kernel, 1, n)
        /\ SubSeq(Held, 1 + n + 1, Len(Held)) = SubSeq(kernel, n + 1, Len(kernel))
    BY <1>1, <2>1, <2>2, OneByteMore
  <2>4. 1 + n \in 0..Len(Held) /\ 1 + n > 0
    BY <1>1, <2>2
  <2>5. StreamTakes(1 + n)
    BY <1>2, <2>3, <2>4 DEF StreamTakes
  <2> QED
    BY <2>4, <2>5, MapsReads
<1> QED
  BY <1>3, <1>4

(* What a call does to the socket is something the stream may notice.      *)
LEMMA SocketKept ==
  ASSUME TcpInv, KeepSocket
  PROVE  Link' = Link
BY DEF KeepSocket, Link

LEMMA SocketClosed ==
  ASSUME TcpInv, TcpInv', sock, Recv # "wait", kernel = <<>>, CloseSocket, peek_byte' = 0
  PROVE  Noticed
<1>1. Held' = <<>>
  BY HeldNext DEF CloseSocket
<1>2. Link = "ending"
  BY DEF Recv, Link, TcpInv
<1>3. Link' = "down"
  BY DEF CloseSocket, Link
<1> QED
  BY <1>1, <1>2, <1>3 DEF Noticed

(* The calls of the client, each shown to be a step of the stream.         *)
LEMMA ReadByteTakes ==
  ASSUME TcpInv, TcpInv', TcpReadByte
  PROVE  TcpStream!BSNext
<1>1. peek_byte' = 0 /\ QuietWrite
  BY DEF TcpReadByte, tcp_write, QuietWrite
<1>2. kernel \in Seq(NonZero) /\ peek_byte \in Nat
  BY DEF TcpInv
<1>3. CASE peek_byte # 0
  <2>1. kernel' = kernel /\ Link' = Link /\ replied' = [of |-> "read", is |-> LookAhead]
    BY <1>3, SocketKept DEF TcpReadByte, KeepSocket, Answered
  <2>2. LookAhead = SubSeq(Held, 1, 1) /\ SubSeq(Held, 1 + 1, Len(Held)) = kernel
        /\ 1 \in 0..Len(Held) /\ Held' = kernel'
    BY <1>1, <1>2, <1>3, HeldFacts, HeldNext
  <2>3. StreamTakes(1)
    BY <1>1, <2>1, <2>2 DEF StreamTakes, Noticed
  <2> QED
    BY <2>2, <2>3, MapsReads
<1>4. CASE peek_byte = 0 /\ sock /\ Recv = "data"
  <2>1. /\ kernel # <<>> /\ replied' = [of |-> "read", is |-> <<Head(kernel)>>]
        /\ kernel' = Tail(kernel) /\ Link' = Link
    BY <1>4 DEF TcpReadByte, Recv, Answered, Link
  <2>2. Held = kernel /\ Held' = kernel'
    BY <1>1, <1>4, HeldFacts, HeldNext
  <2>3. SubSeq(kernel, 1, 1) = <<Head(kernel)>> /\ SubSeq(kernel, 1 + 1, Len(kernel)) = Tail(kernel)
        /\ Len(kernel) > 0
    BY <1>2, <2>1, FirstOff
  <2>4. 1 \in 0..Len(Held)
    BY <1>2, <2>2, <2>3
  <2>5. StreamTakes(1)
    <3>1. 1 > 0
      OBVIOUS
    <3>2. /\ replied' = [of |-> "read", is |-> SubSeq(Held, 1, 1)]
          /\ Held' = SubSeq(Held, 1 + 1, Len(Held)) /\ Noticed
      BY <2>1, <2>2, <2>3, Zenon DEF Noticed
    <3> QED
      BY <1>1, <3>1, <3>2, Zenon DEF StreamTakes
  <2> QED
    BY <2>4, <2>5, MapsReads
<1>5. CASE peek_byte = 0 /\ ~(sock /\ Recv = "data")
  <2>1. kernel = <<>> /\ Held = <<>> /\ LookAhead = <<>>
    BY <1>2, <1>5, HeldFacts DEF Recv, TcpInv
  <2>2. replied' = [of |-> "read", is |-> <<>>]
        /\ IF sock /\ Recv # "wait" THEN CloseSocket ELSE KeepSocket
    BY <1>5 DEF TcpReadByte, Answered
  <2>3. Noticed /\ kernel' = <<>>
    <3>1. CASE sock /\ Recv # "wait"
      BY <1>1, <2>1, <2>2, <3>1, SocketClosed DEF CloseSocket
    <3>2. CASE ~(sock /\ Recv # "wait")
      BY <2>1, <2>2, <3>2, SocketKept DEF KeepSocket, Noticed
    <3> QED
      BY <3>1, <3>2
  <2>4. Held' = <<>>
    BY <1>1, <2>3, HeldNext
  <2>5. SubSeq(Held, 1, 0) = <<>> /\ SubSeq(Held, 0 + 1, Len(Held)) = Held /\ 0 \in 0..Len(Held)
    <3>1. SubSeq(Held, 1, 0) = <<>> /\ SubSeq(Held, 0 + 1, Len(Held)) = Held
          /\ Len(Held) \in Nat
      BY HeldFacts, Zenon
    <3> QED
      BY <3>1
  <2>6. StreamTakes(0)
    BY <1>1, <2>1, <2>2, <2>3, <2>4, <2>5 DEF StreamTakes
  <2> QED
    BY <2>5, <2>6, MapsReads
<1> QED
  BY <1>3, <1>4, <1>5

LEMMA ReadBlockTakes ==
  ASSUME TcpInv, TcpInv', NEW size \in 1..MaxFromPeer, TcpReadBlock(size)
  PROVE  TcpStream!BSNext
<1>1. peek_byte' = 0 /\ QuietWrite
  BY DEF TcpReadBlock, tcp_write, QuietWrite
<1>2. kernel \in Seq(NonZero) /\ peek_byte \in Nat /\ Len(kernel) \in Nat
  BY DEF TcpInv
<1>3. Len(LookAhead) = IF peek_byte = 0 THEN 0 ELSE 1
  BY DEF LookAhead
<1>4. CASE sock /\ size > Len(LookAhead) /\ Recv = "data"
  <2>1. PICK n \in 1..size - Len(LookAhead) :
          /\ n <= Len(kernel)
          /\ replied' = [of |-> "read", is |-> LookAhead \o SubSeq(kernel, 1, n)]
          /\ kernel' = SubSeq(kernel, n + 1, Len(kernel))
          /\ UNCHANGED <<sock, peer>>
    BY <1>4 DEF TcpReadBlock, Answered
  <2>2. n \in 0..Len(kernel) /\ n > 0
    BY <1>2, <1>3, <2>1
  <2>3. Noticed
    BY <2>1 DEF Noticed, Link
  <2> QED
    BY <1>1, <2>1, <2>2, <2>3, ReadsTake
<1>5. CASE ~(sock /\ size > Len(LookAhead) /\ Recv = "data")
  <2>1. replied' = [of |-> "read", is |-> LookAhead]
        /\ IF sock /\ size > Len(LookAhead) /\ Recv # "wait" THEN CloseSocket ELSE KeepSocket
    BY <1>5 DEF TcpReadBlock, Answered
  <2>2. sock /\ size > Len(LookAhead) => kernel = <<>>
    BY <1>5 DEF Recv
  <2>3. ~sock => kernel = <<>>
    BY DEF TcpInv
  <2>4. peek_byte = 0 => size > Len(LookAhead)
    BY <1>3
  <2>5. Noticed /\ kernel' = kernel
    <3>1. CASE sock /\ size > Len(LookAhead) /\ Recv # "wait"
      BY <1>1, <2>1, <2>2, <3>1, SocketClosed DEF CloseSocket
    <3>2. CASE ~(sock /\ size > Len(LookAhead) /\ Recv # "wait")
      BY <2>1, <3>2, SocketKept DEF KeepSocket, Noticed
    <3> QED
      BY <3>1, <3>2
  <2>6. /\ SubSeq(kernel, 1, 0) = <<>> /\ SubSeq(kernel, 0 + 1, Len(kernel)) = kernel
        /\ LookAhead \o <<>> = LookAhead /\ 0 \in 0..Len(kernel)
    BY <1>2, WholeSeq DEF LookAhead
  <2> QED
    BY <1>1, <2>1, <2>2, <2>3, <2>4, <2>5, <2>6, ReadsTake
<1> QED
  BY <1>4, <1>5

LEMMA LooksKeep ==
  ASSUME TcpInv, TcpInv', TcpPeek \/ TcpConnected
  PROVE  TcpStream!BSNext
<1>1. QuietWrite
  BY DEF TcpPeek, TcpConnected, tcp_write, QuietWrite
<1>2. kernel \in Seq(NonZero) /\ peek_byte \in Nat /\ sock \in BOOLEAN
  BY DEF TcpInv
<1>3. /\ TcpPeek => replied' = [of |-> "peek", is |-> LookAhead']
      /\ TcpConnected => replied' = [of |-> "connected", is |-> (peek_byte' # 0 \/ sock')]
  BY DEF TcpPeek, TcpConnected, Answered, LookAhead
<1>4. ASSUME Held' = Held, Noticed,
             LookAhead' = SubSeq(Held, 1, IF Held = <<>> THEN 0 ELSE 1),
             TcpConnected => ((peek_byte' # 0 \/ sock') <=> (Held # <<>> \/ Link = "up"))
      PROVE  TcpStream!BSNext
  <2>1. CASE TcpPeek
    BY <1>1, <1>3, <1>4, <2>1, MapsReads
  <2>2. CASE TcpConnected
    <3>1. (peek_byte' # 0 \/ sock') = (Held # <<>> \/ Link = "up")
      <4>1. sock' \in BOOLEAN
        BY DEF TcpInv
      <4> QED
        BY <1>4, <2>2, <4>1
    <3>2. replied' = [of |-> "connected", is |-> Held # <<>> \/ Link = "up"]
      BY <1>3, <2>2, <3>1, Zenon
    <3> QED
      BY <1>1, <1>4, <3>2, MapsReads
  <2> QED
    BY <2>1, <2>2
<1>5. CASE peek_byte # 0
  <2>1. peek_byte' = peek_byte /\ kernel' = kernel /\ sock' = sock /\ peer' = peer
    BY <1>5 DEF TcpPeek, TcpConnected, KeepSocket
  <2>2. Held' = Held /\ Link' = Link /\ LookAhead' = LookAhead
    BY <2>1 DEF Held, Link, LookAhead
  <2>3. Held # <<>> /\ SubSeq(Held, 1, 1) = LookAhead
    BY <1>5, HeldFacts
  <2> QED
    BY <1>4, <1>5, <2>1, <2>2, <2>3 DEF Noticed
<1>6. CASE peek_byte = 0 /\ sock /\ Recv = "data"
  <2>1. /\ kernel # <<>> /\ peek_byte' = Head(kernel) /\ kernel' = Tail(kernel)
        /\ sock' = sock /\ peer' = peer
    BY <1>6 DEF TcpPeek, TcpConnected, Recv
  <2>2. /\ Head(kernel) \in NonZero /\ <<Head(kernel)>> \o Tail(kernel) = kernel
        /\ SubSeq(kernel, 1, 1) = <<Head(kernel)>>
    BY <1>2, <2>1, FirstOff
  <2>3. peek_byte' # 0
    BY <2>1, <2>2 DEF NonZero
  <2>4. Held = kernel /\ Held' = Held
    BY <1>6, <2>1, <2>2, <2>3, HeldFacts, HeldNext
  <2>5. LookAhead' = <<Head(kernel)>>
    BY <2>1, <2>3 DEF LookAhead
  <2>6. Link' = Link
    BY <2>1 DEF Link
  <2> QED
    BY <1>4, <2>1, <2>2, <2>3, <2>4, <2>5, <2>6 DEF Noticed
<1>7. CASE peek_byte = 0 /\ ~(sock /\ Recv = "data")
  <2>1. kernel = <<>> /\ Held = <<>> /\ LookAhead = <<>>
    BY <1>2, <1>7, HeldFacts DEF Recv, TcpInv
  <2>2. peek_byte' = 0 /\ (sock /\ Recv # "wait" => Link = "ending")
    BY <1>2, <1>7, <2>1 DEF TcpPeek, TcpConnected, Recv, Link, TcpInv
  <2>3. CASE CloseSocket /\ sock /\ Recv # "wait"
    <3>1. Noticed
      BY <2>1, <2>2, <2>3, SocketClosed
    <3>2. Held' = Held /\ LookAhead' = LookAhead /\ ~sock'
      BY <2>1, <2>2, <2>3, HeldNext DEF CloseSocket, LookAhead
    <3>3. SubSeq(Held, 1, 0) = <<>>
      BY HeldFacts, Zenon
    <3> QED
      BY <1>4, <2>1, <2>2, <2>3, <3>1, <3>2, <3>3
  <2>4. CASE ~(CloseSocket /\ sock /\ Recv # "wait")
    <3>1. kernel' = kernel /\ sock' = sock /\ Link' = Link
      <4>1. CASE TcpPeek
        <5>1. ~(sock /\ Recv = "end")
          BY <1>7, <2>4, <4>1 DEF TcpPeek
        <5>2. /\ peer' = IF sock /\ Recv = "error" THEN "closed" ELSE peer
              /\ sock' = sock /\ kernel' = kernel
          BY <1>7, <4>1, <5>1 DEF TcpPeek
        <5> QED
          BY <2>2, <5>2 DEF Link
      <4>2. CASE TcpConnected
        <5>1. KeepSocket
          BY <1>7, <2>4, <4>2 DEF TcpConnected
        <5> QED
          BY <5>1, SocketKept DEF KeepSocket
      <4> QED
        BY <4>1, <4>2
    <3>2. TcpConnected => (sock <=> Link = "up")
      <4>1. TcpConnected => ~(sock /\ Recv # "wait")
        BY <1>7, <2>4 DEF TcpConnected
      <4> QED
        BY <2>1, <4>1 DEF Recv, Link, TcpInv
    <3>3. Held' = Held /\ LookAhead' = LookAhead
      BY <2>1, <2>2, <3>1, HeldNext DEF LookAhead
    <3>4. SubSeq(Held, 1, 0) = <<>>
      BY HeldFacts, Zenon
    <3> QED
      BY <1>4, <2>1, <2>2, <3>1, <3>2, <3>3, <3>4 DEF Noticed
  <2> QED
    BY <2>3, <2>4
<1> QED
  BY <1>5, <1>6, <1>7

LEMMA OpensAgain ==
  ASSUME TcpInv', TcpConnect \/ TcpStop \/ ServerAvailable
  PROVE  TcpStream!BSNext
<1>1. /\ peek_byte' = 0 /\ kernel' = <<>> /\ UNCHANGED replied /\ QuietWrite
  BY Zenon DEF TcpConnect, TcpStop, ServerAvailable, tcp_write, QuietWrite
<1>2. Held' = <<>>
  BY <1>1, HeldNext
<1>3. Link' \in {"up", "ending", "down"}
  BY DEF Link
<1> QED
  BY <1>1, <1>2, <1>3, MapsReads

LEMMA WritesMap ==
  ASSUME TcpInv, TcpInv',
         (\E size \in 1..MaxToPeer : TcpWrite(size)) \/ SendSome \/ WriteReturns
  PROVE  TcpStream!BSNext
<1>1. CASE \E size \in 1..MaxToPeer : TcpWrite(size)
  <2>1. PICK size \in 1..MaxToPeer : TcpWrite(size)
    BY <1>1
  <2>2. unsent' # <<>>
    <3>1. unsent' = [i \in 1..size |-> to_peer + i] /\ size \in Nat /\ size > 0
      BY <2>1, TcpAssumption DEF TcpWrite
    <3>2. 1 \in DOMAIN unsent'
      BY <3>1
    <3> QED
      BY <3>2
  <2>3. /\ unsent = <<>> /\ sent = <<>> /\ sent' = <<>> /\ UNCHANGED <<replied, at_peer>>
        /\ peek_byte' = peek_byte /\ kernel' = kernel /\ sock' = sock /\ peer' = peer
    BY <2>1 DEF TcpWrite, Calls, tcp_read
  <2>4. Held' = Held /\ Link' = Link
    BY <2>3 DEF Held, Link, LookAhead
  <2> QED
    BY <2>2, <2>3, <2>4, MapsWrites
<1>2. CASE SendSome
  <2>1. Held' = Held /\ Link' = Link
    BY <1>2 DEF SendSome, tcp_read, Held, Link, LookAhead
  <2>2. /\ \E n \in 1..Len(unsent) :
             /\ at_peer' = at_peer \o SubSeq(unsent, 1, n)
             /\ unsent' = SubSeq(unsent, n + 1, Len(unsent))
             /\ sent' = sent \o SubSeq(unsent, 1, n)
        /\ UNCHANGED replied
    BY <1>2, Zenon DEF SendSome
  <2> QED
    BY <2>1, <2>2, MapsWrites
<1>3. CASE WriteReturns
  <2>1. /\ peek_byte' = peek_byte /\ kernel' = kernel /\ sock' = sock
        /\ peer' = peer \/ (peer = "reset" /\ peer' = "closed")
    BY <1>3 DEF WriteReturns
  <2>2. Held' = Held
    BY <2>1 DEF Held, LookAhead
  <2>3. Link' = Link
    BY <2>1 DEF Link
  <2>4. /\ replied' = [of |-> "write", is |-> Len(sent)]
        /\ unsent' = <<>> /\ sent' = <<>> /\ at_peer' = at_peer
    BY <1>3 DEF WriteReturns, Answered
  <2> QED
    BY <2>2, <2>3, <2>4, MapsWrites
<1> QED
  BY <1>1, <1>2, <1>3

(* What a peer does reaches the client behind the byte it has looked at.   *)
LEMMA PeerMaps ==
  ASSUME TcpInv, TcpInv', PeerSends \/ PeerCloses
  PROVE  TcpStream!BSNext
<1>1. UNCHANGED replied /\ QuietWrite /\ peek_byte' = peek_byte /\ sock' = sock /\ sock
      /\ peer = "open"
  BY DEF PeerSends, PeerCloses, tcp_write, QuietWrite
<1>2. kernel \in Seq(NonZero) /\ Held \in Seq(NonZero) /\ Len(Held) \in Nat
  BY HeldFacts DEF TcpInv
<1>3. Link = "up"
  BY <1>1 DEF Link
<1>4. CASE PeerSends
  <2> DEFINE b == from_peer + 1
  <2>1. b \in NonZero
    BY DEF TcpInv, NonZero
  <2>2. kernel' = Append(kernel, b) /\ Link' = Link
    BY <1>1, <1>4 DEF PeerSends, Link
  <2> HIDE DEF b
  <2>3. Held' = Append(Held, b)
    <3>1. CASE peek_byte = 0
      BY <1>1, <2>2, <3>1, HeldFacts, HeldNext
    <3>2. CASE peek_byte # 0
      <4>1. peek_byte \in NonZero
        BY <3>2 DEF TcpInv, NonZero
      <4>2. <<peek_byte>> \o Append(kernel, b) = Append(<<peek_byte>> \o kernel, b)
        BY <1>2, <2>1, <4>1, AppendAfter
      <4> QED
        BY <1>1, <2>2, <3>2, <4>2, HeldFacts, HeldNext
    <3> QED
      BY <3>1, <3>2
  <2>4. Len(Held') = Len(Held) + 1 /\ SubSeq(Held', 1, Len(Held)) = Held
    BY <1>2, <2>1, <2>3, OneAppended
  <2> QED
    BY <1>1, <1>3, <2>2, <2>4, MapsPeer
<1>5. CASE PeerCloses
  <2>1. Link' = "ending" /\ (kernel' = kernel \/ kernel' = <<>>)
    BY <1>1, <1>5 DEF PeerCloses, Link
  <2>2. \E n \in 0..Len(Held) : Held' = SubSeq(Held, 1, n)
    <3>1. CASE kernel' = kernel
      <4>1. Held' = Held
        BY <1>1, <3>1 DEF Held, LookAhead
      <4>2. SubSeq(Held, 1, Len(Held)) = Held /\ Len(Held) \in 0..Len(Held)
        BY <1>2, WholeSeq
      <4> QED
        BY <4>1, <4>2
    <3>2. CASE kernel' = <<>> /\ peek_byte = 0
      <4>1. Held' = SubSeq(Held, 1, 0)
        BY <1>1, <3>2, HeldFacts, HeldNext
      <4>2. 0 \in 0..Len(Held)
        BY <1>2
      <4> QED
        BY <4>1, <4>2
    <3>3. CASE kernel' = <<>> /\ peek_byte # 0
      <4>1. Held' = <<peek_byte>> \o <<>>
        BY <1>1, <3>3, HeldNext
      <4>2. Held' = SubSeq(Held, 1, 1)
        BY <3>3, <4>1, HeldFacts
      <4>3. 1 \in 0..Len(Held)
        <5>1. Len(Held) = 1 + Len(kernel) /\ Len(kernel) \in Nat
          BY <1>2, <3>3, HeldFacts
        <5> QED
          BY <5>1
      <4> QED
        BY <4>2, <4>3
    <3> QED
      BY <2>1, <3>1, <3>2, <3>3
  <2> QED
    BY <1>1, <1>3, <2>1, <2>2, MapsPeer
<1> QED
  BY <1>4, <1>5

(* Every step of the client is a step of the stream, or none.              *)
LEMMA ClientStep ==
  ASSUME TcpInv, TcpInv', [TcpNext]_tcp_vars
  PROVE  [TcpStream!BSNext]_(TcpStream!stream)
<1>1. ASSUME UNCHANGED <<tcp_read, replied, unsent, sent, at_peer>>
      PROVE  UNCHANGED TcpStream!stream
  BY <1>1 DEF TcpStream!stream, tcp_read, LookAhead
<1>2. CASE TcpAvailable
  <2>1. /\ replied' = [of |-> "available", is |-> Len(LookAhead) + IF sock THEN Len(kernel) ELSE 0]
        /\ UNCHANGED tcp_read /\ QuietWrite
    BY <1>2 DEF TcpAvailable, Answered, tcp_write, QuietWrite
  <2>2. Held' = Held /\ Link' = Link
    BY <2>1 DEF Held, Link, LookAhead, tcp_read
  <2>3. Len(Held) = Len(LookAhead) + IF sock THEN Len(kernel) ELSE 0
    <3>1. /\ peek_byte = 0 => Len(LookAhead) = 0
          /\ peek_byte # 0 => Len(LookAhead) = 1 /\ sock
          /\ Len(kernel) \in Nat /\ (~sock => Len(kernel) = 0)
      BY DEF LookAhead, TcpInv
    <3>2. /\ peek_byte = 0 => Len(Held) = Len(kernel)
          /\ peek_byte # 0 => Len(Held) = 1 + Len(kernel)
      BY HeldFacts
    <3>3. CASE peek_byte = 0 /\ sock
      BY <3>1, <3>2, <3>3
    <3>4. CASE peek_byte = 0 /\ ~sock
      BY <3>1, <3>2, <3>4
    <3>5. CASE peek_byte # 0
      BY <3>1, <3>2, <3>5
    <3> QED
      BY <3>3, <3>4, <3>5
  <2>4. replied' = [of |-> "available", is |-> Len(Held)]
    BY <2>1, <2>3, Zenon
  <2> QED
    BY <2>1, <2>2, <2>4, MapsReads
<1>3. CASE UNCHANGED tcp_vars \/ ServerBegin \/ ServerEnd \/ PeerCalls
  BY <1>1, <1>3 DEF ServerBegin, ServerEnd, PeerCalls, tcp_vars, tcp_write
<1> QED
  BY <1>2, <1>3, OpensAgain, ReadByteTakes, ReadBlockTakes, LooksKeep, WritesMap, PeerMaps
     DEF TcpNext

(* The TCP client, whatever is looked at, read in bytes or blocks, counted,*)
(* probed or written, and whenever its peer sends, closes or resets, is a  *)
(* ByteStream, for streams and writes of any length (WiFiClient.h:105-254).*)
THEOREM ClientIsAStream == ServicesSpec => TcpImplementsStream
<1>1. ServicesInit => TcpInv /\ TcpStream!BSInit
  <2> SUFFICES ASSUME ServicesInit PROVE TcpInv /\ TcpStream!BSInit
    OBVIOUS
  <2>1. /\ sock = FALSE /\ peek_byte = 0 /\ kernel = <<>> /\ peer = "open"
        /\ from_peer = 0 /\ replied = [of |-> "nothing", is |-> <<>>]
        /\ unsent = <<>> /\ sent = <<>> /\ to_peer = 0 /\ at_peer = <<>>
    BY DEF ServicesInit, TcpInit
  <2>2. <<>> \in Seq(NonZero) /\ <<>> \in Seq(Nat)
    OBVIOUS
  <2>3. TcpInv
    BY <2>1, <2>2 DEF TcpInv
  <2>4. LookAhead \o kernel = <<>>
    BY <2>1, <2>2, WholeSeq DEF LookAhead
  <2> QED
    BY <2>1, <2>3, <2>4 DEF TcpStream!BSInit, TcpStream!Silent, TcpStream!NoWrite
<1>2. TcpInv /\ [ServicesNext]_services_vars => TcpInv'
  BY ServicesStep, TcpInvInductive
<1>3. TcpInv /\ TcpInv' /\ [ServicesNext]_services_vars
        => [TcpStream!BSNext]_(TcpStream!stream)
  BY ServicesStep, ClientStep
<1> QED
  BY <1>1, <1>2, <1>3, PTL DEF ServicesSpec, TcpImplementsStream, TcpStream!BSSpec
------------------------------------------------------------------------------
(* A behaviour of the libraries is a behaviour of the HTTP client.         *)
LEMMA HttpStep ==
  ASSUME [ServicesNext]_services_vars
  PROVE  [HttpNext]_http_vars
BY DEF ServicesNext, services_vars, beside_stream, beside_tcp, beside_prefs, beside_files, http_vars
------------------------------------------------------------------------------
(* What a connection carries: lines, and bytes, which are lines too.       *)
LineKinds == {"ok", "found", "temporary", "byte", "blank", "size", "location", "length", "chunked"}
Lines == [kind : LineKinds, n : Nat]

LEMMA LineIs ==
  ASSUME NEW k \in LineKinds, NEW n \in Nat
  PROVE  Line(k, n) \in Lines /\ Line(k, n).kind = k /\ Line(k, n).n = n
BY DEF Line, Lines

LEMMA EmptyLineIs == EmptyLine \in Lines /\ EmptyLine.kind = "blank" /\ EmptyLine.n = 0
BY LineIs DEF EmptyLine, LineKinds

(* One line before others, and none.                                       *)
LEMMA LineBefore ==
  ASSUME NEW l \in Lines, NEW s \in Seq(Lines)
  PROVE  <<l>> \o s \in Seq(Lines) /\ Len(<<l>> \o s) = Len(s) + 1 /\ (<<l>> \o s)[1] = l
OBVIOUS

LEMMA NoLines ==
  /\ <<>> \in Seq(Lines) /\ Len(<<>>) = 0
  /\ \A s \in Seq(Lines) : <<>> \o s = s /\ s \o <<>> = s /\ (Len(s) = 0 => s = <<>>)
OBVIOUS

IsJoined(w, s, t) ==
  /\ w \in Seq(Lines) /\ Len(w) = Len(s) + Len(t)
  /\ \A i \in 1..Len(s) : w[i] = s[i]
  /\ \A i \in Len(s) + 1..Len(s) + Len(t) : w[i] = t[i - Len(s)]

LEMMA JoinedLines ==
  ASSUME NEW s \in Seq(Lines), NEW t \in Seq(Lines)
  PROVE  IsJoined(s \o t, s, t)
BY DEF IsJoined

LEMMA JoinedThrice ==
  ASSUME NEW s \in Seq(Lines), NEW t \in Seq(Lines), NEW u \in Seq(Lines)
  PROVE  (s \o t) \o u = s \o (t \o u) /\ s \o (t \o u) \in Seq(Lines)
OBVIOUS

LEMMA JoinedFour ==
  ASSUME NEW p \in Seq(Lines), NEW q \in Seq(Lines), NEW r \in Seq(Lines), NEW s \in Seq(Lines)
  PROVE  ((p \o q) \o r) \o s = p \o (q \o (r \o s)) /\ p \o (q \o (r \o s)) \in Seq(Lines)
OBVIOUS

LEMMA SameLines ==
  ASSUME NEW s \in Seq(Lines), NEW t \in Seq(Lines), Len(s) = Len(t),
         \A i \in 1..Len(s) : s[i] = t[i]
  PROVE  s = t
OBVIOUS

LEMMA CutLines ==
  ASSUME NEW s \in Seq(Lines), NEW n \in 0..Len(s)
  PROVE  /\ SubSeq(s, 1, n) \in Seq(Lines) /\ Len(SubSeq(s, 1, n)) = n
         /\ SubSeq(s, n + 1, Len(s)) \in Seq(Lines)
         /\ s = SubSeq(s, 1, n) \o SubSeq(s, n + 1, Len(s))
<1> DEFINE u == SubSeq(s, 1, n)
           v == SubSeq(s, n + 1, Len(s))
           w == u \o v
<1>1. /\ u \in Seq(Lines) /\ Len(u) = n /\ \A i \in 1..n : u[i] = s[i]
      /\ v \in Seq(Lines) /\ Len(v) = Len(s) - n /\ \A i \in 1..Len(s) - n : v[i] = s[n + i]
  OBVIOUS
<1>0. w = u \o v
  OBVIOUS
<1> HIDE DEF u, v, w
<1>2. IsJoined(w, u, v)
  BY <1>0, <1>1, JoinedLines, Zenon
<1>3. ASSUME NEW i \in 1..Len(s) PROVE w[i] = s[i]
  <2>1. CASE i <= n
    BY <1>1, <1>2, <2>1 DEF IsJoined
  <2>2. CASE i > n
    <3>1. i - n \in 1..Len(s) - n /\ n + (i - n) = i /\ i \in n + 1..n + (Len(s) - n)
      BY <2>2
    <3>2. w[i] = v[i - n] /\ v[i - n] = s[n + (i - n)]
      BY <1>1, <1>2, <3>1 DEF IsJoined
    <3> QED
      BY <3>1, <3>2
  <2> QED
    BY <2>1, <2>2
<1>4. w = s
  <2>1. w \in Seq(Lines) /\ Len(w) = Len(s)
    BY <1>1, <1>2 DEF IsJoined
  <2> QED
    BY <1>3, <2>1, SameLines
<1> QED
  BY <1>0, <1>1, <1>4 DEF u, v

(* The bytes of a body, and their parts.                                   *)
LEMMA BytesAre ==
  ASSUME NEW from \in Nat \ {0}, NEW to \in Nat, from <= to + 1
  PROVE  /\ Bytes(from, to) \in Seq(Lines) /\ Len(Bytes(from, to)) = to - from + 1
         /\ \A i \in 1..to - from + 1 : Bytes(from, to)[i] = Line("byte", from + i - 1)
<1>1. \A i \in 1..to - from + 1 : Line("byte", from + i - 1) \in Lines
  BY LineIs DEF LineKinds
<1> QED
  BY <1>1 DEF Bytes

LEMMA BytesJoin ==
  ASSUME NEW from \in Nat \ {0}, NEW at \in Nat, NEW to \in Nat, from <= at + 1, at <= to
  PROVE  Bytes(from, at) \o Bytes(at + 1, to) = Bytes(from, to)
<1> DEFINE u == Bytes(from, at)
           v == Bytes(at + 1, to)
           w == Bytes(from, to)
           j == u \o v
<1>1. /\ u \in Seq(Lines) /\ Len(u) = at - from + 1
      /\ \A i \in 1..at - from + 1 : u[i] = Line("byte", from + i - 1)
  BY BytesAre
<1>2. /\ v \in Seq(Lines) /\ Len(v) = to - at
      /\ \A i \in 1..to - at : v[i] = Line("byte", at + i)
  <2>1. at + 1 \in Nat \ {0} /\ at + 1 <= to + 1 /\ to - (at + 1) + 1 = to - at
        /\ \A i \in 1..to - at : (at + 1) + i - 1 = at + i
    OBVIOUS
  <2>2. /\ v \in Seq(Lines) /\ Len(v) = to - (at + 1) + 1
        /\ \A i \in 1..to - (at + 1) + 1 : v[i] = Line("byte", (at + 1) + i - 1)
    BY <2>1, BytesAre, Zenon
  <2> HIDE DEF v
  <2> QED
    BY <2>1, <2>2
<1>3. /\ w \in Seq(Lines) /\ Len(w) = to - from + 1
      /\ \A i \in 1..to - from + 1 : w[i] = Line("byte", from + i - 1)
  <2>1. from <= to + 1
    OBVIOUS
  <2> QED
    BY <2>1, BytesAre, Zenon
<1>0. j = u \o v
  OBVIOUS
<1> HIDE DEF u, v, w, j
<1>4. IsJoined(j, u, v)
  BY <1>0, <1>1, <1>2, JoinedLines, Zenon
<1>5. ASSUME NEW i \in 1..to - from + 1 PROVE j[i] = w[i]
  <2>1. CASE i <= at - from + 1
    BY <1>1, <1>3, <1>4, <2>1 DEF IsJoined
  <2>2. CASE i > at - from + 1
    <3> DEFINE k == i - (at - from + 1)
    <3>1. k \in 1..to - at /\ at + k = from + i - 1
          /\ i \in (at - from + 1) + 1..(at - from + 1) + (to - at)
      BY <2>2
    <3>2. j[i] = v[k]
      BY <1>1, <1>2, <1>4, <3>1 DEF IsJoined
    <3> HIDE DEF k
    <3>3. v[k] = Line("byte", from + i - 1)
      BY <1>2, <3>1
    <3> QED
      BY <1>3, <3>2, <3>3
  <2> QED
    BY <2>1, <2>2
<1>6. j = w
  <2>1. j \in Seq(Lines) /\ Len(j) = Len(w) /\ Len(j) = to - from + 1
    BY <1>1, <1>2, <1>3, <1>4 DEF IsJoined
  <2> QED
    BY <1>3, <1>5, <2>1, SameLines
<1> QED
  BY <1>0, <1>6 DEF u, v, w

LEMMA NoBytesAre == \A n \in Nat : Bytes(n + 1, n) = <<>>
BY DEF Bytes
------------------------------------------------------------------------------
(* The chunks of a body from each of its bytes on: the table that Chunks   *)
(* computes from the last byte to the first.                               *)
LastOf(from, size, each) == IF from + each - 1 <= size THEN from + each - 1 ELSE size
ChunksEnd == <<Line("size", 0), EmptyLine>>
ChunkBefore(from, to, rest) ==
  <<Line("size", to - from + 1)>> \o Bytes(from, to) \o <<EmptyLine>> \o rest
ChunksFrom(size, each) ==
  LET c[from \in 1..size + 1] ==
        IF from > size THEN ChunksEnd
        ELSE ChunkBefore(from, LastOf(from, size, each), c[LastOf(from, size, each) + 1])
  IN c

LEMMA ChunksTable ==
  ASSUME NEW size, NEW each
  PROVE  Chunks(size, each) = ChunksFrom(size, each)[1]
BY DEF Chunks, ChunksFrom, LastOf, ChunksEnd, ChunkBefore

LEMMA LastOfChunk ==
  ASSUME NEW size \in Nat, NEW each \in Nat \ {0}, NEW from \in 1..size
  PROVE  LastOf(from, size, each) \in from..size
BY DEF LastOf

LEMMA ChunkBeforeIs ==
  ASSUME NEW from \in Nat \ {0}, NEW to \in Nat, from <= to + 1, NEW rest \in Seq(Lines)
  PROVE  /\ ChunkBefore(from, to, rest) \in Seq(Lines)
         /\ ChunkBefore(from, to, rest)
              = <<Line("size", to - from + 1)>> \o (Bytes(from, to) \o (<<EmptyLine>> \o rest))
<1> DEFINE l == Line("size", to - from + 1)
           b == Bytes(from, to)
<1>1. l \in Lines /\ b \in Seq(Lines) /\ EmptyLine \in Lines
  <2>1. to - from + 1 \in Nat /\ "size" \in LineKinds
    BY DEF LineKinds
  <2>2. l \in Lines
    BY <2>1, LineIs, Zenon
  <2> QED
    BY <2>2, BytesAre, EmptyLineIs, Zenon
<1>2. <<l>> \in Seq(Lines) /\ <<EmptyLine>> \in Seq(Lines)
  BY <1>1
<1>3. ChunkBefore(from, to, rest) = ((<<l>> \o b) \o <<EmptyLine>>) \o rest
  BY DEF ChunkBefore
<1> DEFINE e == <<EmptyLine>>
           a == <<l>>
<1> HIDE DEF l, b, e, a
<1>5. a \in Seq(Lines) /\ e \in Seq(Lines) /\ ChunkBefore(from, to, rest) = ((a \o b) \o e) \o rest
  BY <1>2, <1>3 DEF a, e
<1>6. ChunkBefore(from, to, rest) = a \o (b \o (e \o rest)) /\ a \o (b \o (e \o rest)) \in Seq(Lines)
  BY <1>1, <1>5, JoinedFour, Zenon
<1> QED
  BY <1>6 DEF a, b, e, l

LEMMA ChunksExist ==
  ASSUME NEW size \in Nat, NEW each \in Nat \ {0}
  PROVE  /\ ChunksFrom(size, each) \in [1..size + 1 -> Seq(Lines)]
         /\ ChunksFrom(size, each)[size + 1] = ChunksEnd
         /\ \A from \in 1..size :
              ChunksFrom(size, each)[from]
                = ChunkBefore(from, LastOf(from, size, each),
                              ChunksFrom(size, each)[LastOf(from, size, each) + 1])
<1> DEFINE last(from) == LastOf(from, size, each)
           Piece(f, from) == IF from > size THEN ChunksEnd
                             ELSE ChunkBefore(from, last(from), f[last(from) + 1])
           S == {k \in Nat : k <= size => \E f \in [1..size + 1 -> Seq(Lines)] :
                   \A from \in size + 1 - k..size + 1 : f[from] = Piece(f, from)}
<1>0. ChunksEnd \in Seq(Lines)
  BY LineIs, EmptyLineIs DEF ChunksEnd, LineKinds
<1>1. \A from \in 1..size : last(from) \in from..size
  BY LastOfChunk
<1>2. 0 \in S
  <2> DEFINE f == [from \in 1..size + 1 |-> ChunksEnd]
  <2>1. f \in [1..size + 1 -> Seq(Lines)] /\ f[size + 1] = Piece(f, size + 1)
    BY <1>0
  <2>2. \A from \in size + 1 - 0..size + 1 : from = size + 1
    OBVIOUS
  <2> HIDE DEF f, Piece
  <2>3. 0 <= size => \E g \in [1..size + 1 -> Seq(Lines)] :
          \A from \in size + 1 - 0..size + 1 : g[from] = Piece(g, from)
    BY <2>1, <2>2
  <2> QED
    BY <2>3
<1>3. ASSUME NEW k \in Nat, k \in S PROVE k + 1 \in S
  <2> SUFFICES ASSUME k + 1 <= size
               PROVE  \E g \in [1..size + 1 -> Seq(Lines)] :
                        \A from \in size + 1 - (k + 1)..size + 1 : g[from] = Piece(g, from)
    OBVIOUS
  <2>1. PICK f \in [1..size + 1 -> Seq(Lines)] :
          \A from \in size + 1 - k..size + 1 : f[from] = Piece(f, from)
    BY <1>3
  <2> DEFINE at == size - k
             g == [f EXCEPT ![at] = Piece(f, at)]
  <2>2. at \in 1..size /\ at \in 1..size + 1 /\ last(at) \in at..size /\ last(at) + 1 \in 1..size + 1
    BY <1>1
  <2>3. Piece(f, at) \in Seq(Lines)
    <3>1. f[last(at) + 1] \in Seq(Lines)
      BY <2>2
    <3>2. at \in Nat \ {0} /\ last(at) \in Nat /\ at <= last(at) + 1 /\ ~(at > size)
      BY <2>2
    <3> HIDE DEF last, at
    <3> QED
      BY <3>1, <3>2, ChunkBeforeIs, Zenon
  <2> HIDE DEF at
  <2>4. g \in [1..size + 1 -> Seq(Lines)] /\ g[at] = Piece(f, at)
        /\ \A from \in 1..size + 1 : from # at => g[from] = f[from]
    <3> HIDE DEF Piece
    <3> QED
      BY <2>2, <2>3
  <2>5. ASSUME NEW from \in 1..size + 1, from >= at PROVE Piece(g, from) = Piece(f, from)
    <3>1. from <= size => last(from) + 1 \in 1..size + 1 /\ last(from) + 1 # at
      <4> SUFFICES ASSUME from <= size
                   PROVE  last(from) + 1 \in 1..size + 1 /\ last(from) + 1 # at
        OBVIOUS
      <4>1. from \in 1..size
        OBVIOUS
      <4>2. last(from) \in from..size
        BY <1>1, <4>1
      <4> HIDE DEF last
      <4> QED
        BY <2>2, <2>5, <4>2
    <3> HIDE DEF g, last
    <3> QED
      BY <2>4, <2>5, <3>1
  <2> HIDE DEF g, Piece
  <2>6. ASSUME NEW from \in size + 1 - (k + 1)..size + 1 PROVE g[from] = Piece(g, from)
    <3>1. from \in 1..size + 1 /\ from >= at /\ (from = at \/ from \in size + 1 - k..size + 1)
      BY <2>2 DEF at
    <3> QED
      BY <2>1, <2>2, <2>4, <2>5, <3>1
  <2> QED
    BY <2>4, <2>6
<1> HIDE DEF S
<1>4. size \in S /\ size <= size /\ size + 1 - size = 1
  BY <1>2, <1>3, Induction
<1> DEFINE Table(c) == c = [from \in 1..size + 1 |-> Piece(c, from)]
<1>5. PICK f \in [1..size + 1 -> Seq(Lines)] : Table(f)
  <2>1. PICK f \in [1..size + 1 -> Seq(Lines)] : \A from \in 1..size + 1 : f[from] = Piece(f, from)
    <3> HIDE DEF Piece
    <3> QED
      BY <1>4 DEF S
  <2> HIDE DEF Piece
  <2> QED
    BY <2>1
<1>6. ChunksFrom(size, each) = CHOOSE c : Table(c)
  BY DEF ChunksFrom
<1>7. Table(ChunksFrom(size, each))
  <2> HIDE DEF Table
  <2> QED
    BY <1>5, <1>6
<1> DEFINE c == ChunksFrom(size, each)
<1> HIDE DEF c
<1>8. c = [from \in 1..size + 1 |-> Piece(c, from)]
  BY <1>7 DEF c
<1>9. DOMAIN c = 1..size + 1 /\ \A from \in 1..size + 1 : c[from] = Piece(c, from)
  <2> HIDE DEF Piece
  <2> QED
    BY <1>8
<1>10. c[size + 1] = ChunksEnd /\ \A from \in 1..size : c[from] = ChunkBefore(from, last(from), c[last(from) + 1])
  <2>1. size + 1 \in 1..size + 1 /\ size + 1 > size
        /\ \A from \in 1..size : from \in 1..size + 1 /\ ~(from > size)
    OBVIOUS
  <2> HIDE DEF last
  <2> QED
    BY <1>9, <2>1
<1> DEFINE D == {k \in Nat : \A from \in 1..size + 1 : from + k >= size + 1 => c[from] \in Seq(Lines)}
<1>11. 0 \in D
  <2>1. ASSUME NEW from \in 1..size + 1, from + 0 >= size + 1 PROVE c[from] \in Seq(Lines)
    BY <1>0, <1>10, <2>1
  <2> QED
    BY <2>1
<1>12. ASSUME NEW k \in Nat, k \in D PROVE k + 1 \in D
  <2>1. ASSUME NEW from \in 1..size + 1, from + (k + 1) >= size + 1 PROVE c[from] \in Seq(Lines)
    <3>1. CASE from = size + 1
      BY <1>0, <1>10, <3>1
    <3>2. CASE from \in 1..size
      <4>1. last(from) \in from..size /\ last(from) + 1 \in 1..size + 1
            /\ (last(from) + 1) + k >= size + 1
        BY <1>1, <2>1, <3>2
      <4> HIDE DEF last
      <4>2. c[last(from) + 1] \in Seq(Lines)
        BY <1>12, <4>1
      <4>3. c[from] = ChunkBefore(from, last(from), c[last(from) + 1])
        BY <1>10, <3>2
      <4>4. ChunkBefore(from, last(from), c[last(from) + 1]) \in Seq(Lines)
        <5>1. from \in Nat \ {0} /\ last(from) \in Nat /\ from <= last(from) + 1
          BY <3>2, <4>1
        <5> QED
          BY <4>2, <5>1, ChunkBeforeIs, Zenon
      <4> QED
        BY <4>3, <4>4
    <3> QED
      BY <3>1, <3>2
  <2> QED
    BY <2>1
<1> HIDE DEF D
<1>13. size \in D
  BY <1>11, <1>12, Induction
<1>14. \A from \in 1..size + 1 : c[from] \in Seq(Lines)
  BY <1>13 DEF D
<1>15. c \in [1..size + 1 -> Seq(Lines)]
  <2>1. c = [from \in 1..size + 1 |-> c[from]]
    <3> HIDE DEF Piece
    <3> QED
      BY <1>8, <1>9
  <2> QED
    BY <1>14, <2>1
<1> QED
  BY <1>10, <1>15 DEF c
------------------------------------------------------------------------------
(* What has arrived and is to come is what is expected, or the beginning   *)
(* of it if the server has cut it short.                                   *)
Part(w, expected, short) ==
  /\ w \in Seq(Lines) /\ Len(w) <= Len(expected) /\ (short \/ Len(w) = Len(expected))
  /\ \A i \in 1..Len(w) : w[i] = expected[i]

LEMMA WholePart ==
  ASSUME NEW e \in Seq(Lines), NEW short
  PROVE  Part(e, e, short)
<1>1. Len(e) \in Nat
  OBVIOUS
<1> QED
  BY <1>1 DEF Part

LEMMA NoPart ==
  ASSUME NEW e \in Seq(Lines)
  PROVE  Part(<<>>, e, TRUE)
BY DEF Part

LEMMA NoPartOf ==
  ASSUME NEW e \in Seq(Lines), NEW short, Part(<<>>, e, short), ~short
  PROVE  Len(e) = 0
BY DEF Part

LEMMA PartOfNone ==
  ASSUME NEW w, NEW short, Part(w, <<>>, short)
  PROVE  w = <<>>
BY DEF Part

LEMMA PartSplits ==
  ASSUME NEW u \in Seq(Lines), NEW v \in Seq(Lines), NEW p \in Seq(Lines), NEW f \in Seq(Lines),
         NEW short, Len(u) = Len(p), Part(u \o v, p \o f, short)
  PROVE  u = p /\ Part(v, f, short)
<1> DEFINE w == u \o v
           e == p \o f
<1>1. IsJoined(w, u, v) /\ IsJoined(e, p, f) /\ Part(w, e, short)
  BY JoinedLines
<1> HIDE DEF w, e
<1>2. Len(u) \in Nat /\ Len(v) \in Nat /\ Len(f) \in Nat
  OBVIOUS
<1>3. Len(w) = Len(u) + Len(v) /\ Len(e) = Len(u) + Len(f)
  BY <1>1 DEF IsJoined
<1>4. ASSUME NEW i \in 1..Len(u) PROVE u[i] = p[i]
  <2>1. i \in 1..Len(w) /\ i \in 1..Len(p)
    BY <1>2, <1>3
  <2> QED
    BY <1>1, <2>1 DEF IsJoined, Part
<1>5. ASSUME NEW i \in 1..Len(v) PROVE v[i] = f[i] /\ i <= Len(f)
  <2> DEFINE k == Len(u) + i
  <2>1. /\ k \in 1..Len(w) /\ k - Len(u) = i
        /\ k \in Len(u) + 1..Len(u) + Len(v)
    BY <1>2, <1>3
  <2>2. k <= Len(e)
    BY <1>1, <1>2, <1>3, <2>1 DEF Part
  <2>3. k \in Len(p) + 1..Len(p) + Len(f) /\ k - Len(p) = i /\ i <= Len(f)
    BY <1>2, <1>3, <2>1, <2>2
  <2> HIDE DEF k
  <2>4. w[k] = v[k - Len(u)] /\ e[k] = f[k - Len(p)] /\ w[k] = e[k]
    BY <1>1, <2>1, <2>3 DEF IsJoined, Part
  <2> QED
    BY <2>1, <2>3, <2>4
<1>6. u = p
  BY <1>4, SameLines
<1>7. Len(v) <= Len(f) /\ (short \/ Len(v) = Len(f))
  BY <1>1, <1>2, <1>3 DEF Part
<1> QED
  BY <1>5, <1>6, <1>7 DEF Part

LEMMA PartCut ==
  ASSUME NEW w \in Seq(Lines), NEW z \in Seq(Lines), NEW e \in Seq(Lines), NEW short,
         Part(w \o z, e, short)
  PROVE  Part(w, e, TRUE)
<1> DEFINE x == w \o z
<1>1. IsJoined(x, w, z) /\ Part(x, e, short)
  BY JoinedLines
<1> HIDE DEF x
<1>2. Len(w) \in Nat /\ Len(z) \in Nat /\ Len(e) \in Nat /\ Len(x) = Len(w) + Len(z)
  BY <1>1 DEF IsJoined
<1>3. Len(w) <= Len(e)
  BY <1>1, <1>2 DEF Part
<1>4. ASSUME NEW i \in 1..Len(w) PROVE w[i] = e[i]
  <2>1. i \in 1..Len(x)
    BY <1>2
  <2> QED
    BY <1>1, <2>1 DEF IsJoined, Part
<1> QED
  BY <1>3, <1>4 DEF Part
------------------------------------------------------------------------------
(* A response on the wire, and what is left of it after its parts: after   *)
(* its status line, where it redirects to, its framing and its head.       *)
Where(r) == IF r.location THEN <<Line("location", 0)>> ELSE <<>>
Framing(r) ==
  CASE r.framing = "length" -> <<Line("length", r.size)>>
    [] r.framing = "close" -> <<>>
    [] OTHER -> <<Line("chunked", 0)>>
Body(r) == IF r.framing = "chunks" THEN ChunksFrom(r.size, r.chunk)[1] ELSE Bytes(1, r.size)
FromBlank(r) == <<EmptyLine>> \o Body(r)
FromFraming(r) == Framing(r) \o FromBlank(r)
FromLocation(r) == Where(r) \o FromFraming(r)
FromStatus(r) == <<Line(r.code, 0)>> \o FromLocation(r)

LEMMA ResponseIs ==
  ASSUME NEW r \in Responses
  PROVE  /\ r.code \in LineKinds /\ r.code \in Codes /\ r.size \in Nat /\ r.location \in BOOLEAN
         /\ r.framing \in {"length", "close", "chunks"}
         /\ r.framing = "chunks" => r.chunk \in Nat \ {0}
BY HttpAssumption DEF Responses, LineKinds

LEMMA StagesAre ==
  ASSUME NEW r \in Responses
  PROVE  /\ Where(r) \in Seq(Lines) /\ Framing(r) \in Seq(Lines) /\ Body(r) \in Seq(Lines)
         /\ FromBlank(r) \in Seq(Lines) /\ FromFraming(r) \in Seq(Lines)
         /\ FromLocation(r) \in Seq(Lines) /\ FromStatus(r) \in Seq(Lines)
<1>1. \A s, t \in Seq(Lines) : s \o t \in Seq(Lines)
  BY JoinedLines DEF IsJoined
<1>2. Where(r) \in Seq(Lines)
  BY LineIs DEF Where, LineKinds
<1>3. Framing(r) \in Seq(Lines)
  <2>1. \A n \in Nat : Line("length", n) \in Lines
    BY LineIs DEF LineKinds
  <2>2. Line("chunked", 0) \in Lines
    BY LineIs DEF LineKinds
  <2> QED
    BY <2>1, <2>2, ResponseIs DEF Framing
<1>4. Body(r) \in Seq(Lines)
  <2>1. CASE r.framing = "chunks"
    <3>1. r.size \in Nat /\ r.chunk \in Nat \ {0} /\ 1 \in 1..r.size + 1
      BY <2>1, ResponseIs
    <3>2. ChunksFrom(r.size, r.chunk) \in [1..r.size + 1 -> Seq(Lines)]
      BY <3>1, ChunksExist, Zenon
    <3>3. ChunksFrom(r.size, r.chunk)[1] \in Seq(Lines)
      BY <3>1, <3>2
    <3> QED
      BY <2>1, <3>3 DEF Body
  <2>2. CASE r.framing # "chunks"
    <3>1. r.size \in Nat /\ 1 \in Nat \ {0} /\ 1 <= r.size + 1
      BY ResponseIs
    <3>2. Bytes(1, r.size) \in Seq(Lines)
      BY <3>1, BytesAre, Zenon
    <3> QED
      BY <2>2, <3>2 DEF Body
  <2> QED
    BY <2>1, <2>2
<1>5. <<EmptyLine>> \in Seq(Lines) /\ <<Line(r.code, 0)>> \in Seq(Lines)
  BY EmptyLineIs, LineIs, ResponseIs
<1> QED
  BY <1>1, <1>2, <1>3, <1>4, <1>5, Zenon DEF FromBlank, FromFraming, FromLocation, FromStatus

LEMMA OnTheWireIs ==
  ASSUME NEW r \in Responses
  PROVE  OnTheWire(r) = FromStatus(r)
<1> DEFINE l == <<Line(r.code, 0)>>
           e == <<EmptyLine>>
           a == Where(r)
           b == Framing(r)
           c == Body(r)
           t == CASE r.framing = "length" -> <<Line("length", r.size), EmptyLine>> \o Bytes(1, r.size)
                  [] r.framing = "close" -> <<EmptyLine>> \o Bytes(1, r.size)
                  [] OTHER -> <<Line("chunked", 0), EmptyLine>> \o Chunks(r.size, r.chunk)
<1>1. OnTheWire(r) = (l \o a) \o t
  BY DEF OnTheWire, Where
<1>2. ASSUME NEW x \in Lines PROVE <<x, EmptyLine>> = <<x>> \o e
  <2>1. <<x, EmptyLine>> \in Seq(Lines) /\ <<x>> \in Seq(Lines) /\ e \in Seq(Lines)
    BY EmptyLineIs
  <2>2. Len(<<x, EmptyLine>>) = 2 /\ Len(<<x>> \o e) = 2 /\ <<x>> \o e \in Seq(Lines)
        /\ \A i \in 1..2 : <<x, EmptyLine>>[i] = (<<x>> \o e)[i]
    BY <2>1
  <2> QED
    BY <2>1, <2>2, SameLines
<1>3. l \in Seq(Lines) /\ e \in Seq(Lines) /\ a \in Seq(Lines) /\ b \in Seq(Lines) /\ c \in Seq(Lines)
  BY EmptyLineIs, LineIs, ResponseIs, StagesAre
<1>4. t = (b \o e) \o c
  <2>1. CASE r.framing = "length"
    <3>1. Line("length", r.size) \in Lines
      <4>1. r.size \in Nat /\ "length" \in LineKinds
        BY ResponseIs DEF LineKinds
      <4> QED
        BY <4>1, LineIs, Zenon
    <3>2. b = <<Line("length", r.size)>> /\ c = Bytes(1, r.size)
      BY <2>1 DEF Framing, Body
    <3>3. t = <<Line("length", r.size), EmptyLine>> \o Bytes(1, r.size)
      BY <2>1
    <3>4. <<Line("length", r.size), EmptyLine>> = <<Line("length", r.size)>> \o e
      BY <1>2, <3>1
    <3> QED
      BY <3>2, <3>3, <3>4
  <2>2. CASE r.framing = "close"
    <3>1. b = <<>> /\ <<>> \o e = e /\ t = e \o c
      BY <1>3, <2>2, NoLines DEF Framing, Body
    <3> QED
      BY <3>1
  <2>3. CASE r.framing = "chunks"
    <3>1. b = <<Line("chunked", 0)>> /\ c = Chunks(r.size, r.chunk)
      BY <2>3, ChunksTable DEF Framing, Body
    <3>2. t = <<Line("chunked", 0), EmptyLine>> \o Chunks(r.size, r.chunk)
      BY <2>3
    <3>3. <<Line("chunked", 0), EmptyLine>> = <<Line("chunked", 0)>> \o e
      <4>1. Line("chunked", 0) \in Lines
        BY LineIs DEF LineKinds
      <4> QED
        BY <1>2, <4>1
    <3> QED
      BY <3>1, <3>2, <3>3
  <2> QED
    BY <2>1, <2>2, <2>3, ResponseIs
<1>5. FromStatus(r) = l \o (a \o (b \o (e \o c)))
  BY DEF FromStatus, FromLocation, FromFraming, FromBlank
<1> HIDE DEF l, e, a, b, c, t
<1>6. b \o (e \o c) = t /\ t \in Seq(Lines)
  BY <1>3, <1>4
<1>7. (l \o a) \o t = l \o (a \o t)
  BY <1>3, <1>6
<1> QED
  BY <1>1, <1>5, <1>6, <1>7
------------------------------------------------------------------------------
(* What is left of a body in chunks when `d' bytes of it have been read:   *)
(* from the next size line on, from within a chunk with `n' bytes to go,   *)
(* and from the line break after it.                                       *)
FromSize(r, d) == ChunksFrom(r.size, r.chunk)[d + 1]
FromBreak(r, d) == <<EmptyLine>> \o FromSize(r, d)
FromData(r, d, n) == Bytes(d + 1, d + n) \o FromBreak(r, d + n)

LEMMA FromSizeIs ==
  ASSUME NEW r \in Responses, r.framing = "chunks", NEW d \in Nat, d <= r.size
  PROVE  FromSize(r, d) \in Seq(Lines) /\ FromBreak(r, d) \in Seq(Lines)
<1>1. r.size \in Nat /\ r.chunk \in Nat \ {0} /\ d + 1 \in 1..r.size + 1
  BY ResponseIs
<1>2. ChunksFrom(r.size, r.chunk) \in [1..r.size + 1 -> Seq(Lines)]
  BY <1>1, ChunksExist, Zenon
<1>3. FromSize(r, d) \in Seq(Lines)
  BY <1>1, <1>2 DEF FromSize
<1> QED
  BY <1>3, EmptyLineIs, LineBefore DEF FromBreak

LEMMA FromDataIs ==
  ASSUME NEW r \in Responses, r.framing = "chunks", NEW d \in Nat, NEW n \in Nat, d + n <= r.size
  PROVE  FromData(r, d, n) \in Seq(Lines) /\ Len(FromData(r, d, n)) >= n + 1
<1>1. d + 1 \in Nat \ {0} /\ d + n \in Nat /\ d + 1 <= (d + n) + 1 /\ (d + n) - (d + 1) + 1 = n
  OBVIOUS
<1>2. Bytes(d + 1, d + n) \in Seq(Lines) /\ Len(Bytes(d + 1, d + n)) = (d + n) - (d + 1) + 1
  BY <1>1, BytesAre, Zenon
<1>3. FromSize(r, d + n) \in Seq(Lines) /\ FromBreak(r, d + n) \in Seq(Lines)
  BY <1>1, FromSizeIs
<1>4. Len(FromBreak(r, d + n)) >= 1
  <2>1. Len(FromBreak(r, d + n)) = Len(FromSize(r, d + n)) + 1 /\ Len(FromSize(r, d + n)) \in Nat
    BY <1>3, EmptyLineIs, LineBefore DEF FromBreak
  <2> QED
    BY <2>1
<1> DEFINE b == Bytes(d + 1, d + n)
           e == FromBreak(r, d + n)
<1>5. IsJoined(FromData(r, d, n), b, e)
  BY <1>2, <1>3, JoinedLines DEF FromData
<1> HIDE DEF b, e
<1> QED
  BY <1>1, <1>2, <1>4, <1>5 DEF IsJoined, b, e

(* The first of it: the end of the chunks, or a chunk.                     *)
LEMMA SizeLineLast ==
  ASSUME NEW r \in Responses, r.framing = "chunks"
  PROVE  FromSize(r, r.size) = <<Line("size", 0)>> \o <<EmptyLine>>
<1>1. r.size \in Nat /\ r.chunk \in Nat \ {0}
  BY ResponseIs
<1>2. FromSize(r, r.size) = ChunksEnd
  BY <1>1, ChunksExist, Zenon DEF FromSize
<1> QED
  BY <1>2 DEF ChunksEnd

LEMMA SizeLineFirst ==
  ASSUME NEW r \in Responses, r.framing = "chunks", NEW d \in Nat, d < r.size
  PROVE  \E n \in 1..r.size - d : FromSize(r, d) = <<Line("size", n)>> \o FromData(r, d, n)
<1> DEFINE to == LastOf(d + 1, r.size, r.chunk)
           n == to - d
<1>1. r.size \in Nat /\ r.chunk \in Nat \ {0} /\ d + 1 \in 1..r.size
  BY ResponseIs
<1>2. to \in d + 1..r.size
  BY <1>1, LastOfChunk, Zenon
<1>3. FromSize(r, d) = ChunkBefore(d + 1, to, ChunksFrom(r.size, r.chunk)[to + 1])
  BY <1>1, ChunksExist, Zenon DEF FromSize
<1> HIDE DEF to
<1>4. d + 1 \in Nat \ {0} /\ to \in Nat /\ d + 1 <= to + 1 /\ n \in 1..r.size - d
      /\ d + n = to /\ to - (d + 1) + 1 = n /\ to <= r.size
  BY <1>1, <1>2
<1>5. FromSize(r, to) \in Seq(Lines)
  BY <1>4, FromSizeIs
<1>6. FromSize(r, d)
        = <<Line("size", to - (d + 1) + 1)>> \o (Bytes(d + 1, to) \o (<<EmptyLine>> \o FromSize(r, to)))
  BY <1>3, <1>4, <1>5, ChunkBeforeIs, Zenon DEF FromSize
<1>7. FromSize(r, d) = <<Line("size", n)>> \o FromData(r, d, n)
  BY <1>4, <1>6 DEF FromData, FromBreak
<1> QED
  BY <1>4, <1>7

(* Bytes are taken from within a chunk.                                    *)
LEMMA DataSplits ==
  ASSUME NEW r \in Responses, r.framing = "chunks", NEW d \in Nat, NEW m \in Nat, d + m <= r.size,
         NEW n \in 0..m
  PROVE  FromData(r, d, m) = Bytes(d + 1, d + n) \o FromData(r, d + n, m - n)
<1> DEFINE a == Bytes(d + 1, d + n)
           b == Bytes((d + n) + 1, d + m)
           e == FromBreak(r, d + m)
<1>1. /\ d + 1 \in Nat \ {0} /\ d + n \in Nat /\ d + m \in Nat /\ (d + n) + 1 \in Nat \ {0}
      /\ d + 1 <= (d + n) + 1 /\ (d + n) + 1 <= (d + m) + 1 /\ d + n <= d + m
      /\ (d + n) + (m - n) = d + m
  OBVIOUS
<1>2. Bytes(d + 1, d + m) = a \o b
  BY <1>1, BytesJoin, Zenon
<1>3. a \in Seq(Lines) /\ b \in Seq(Lines)
  BY <1>1, BytesAre, Zenon
<1>4. e \in Seq(Lines)
  BY <1>1, FromSizeIs
<1>5. FromData(r, d, m) = (a \o b) \o e /\ FromData(r, d + n, m - n) = b \o e
  BY <1>1, <1>2 DEF FromData
<1> HIDE DEF a, b, e
<1>6. (a \o b) \o e = a \o (b \o e)
  BY <1>3, <1>4
<1>7. FromData(r, d, m) = a \o FromData(r, d + n, m - n)
  BY <1>5, <1>6
<1> QED
  BY <1>7 DEF a
------------------------------------------------------------------------------
(* The invariant.  Every variable has its type; a connection that is not   *)
(* up has nothing to come, one that carries no request is not up, and one  *)
(* on which the first is being written holds nothing.                      *)
LinesOK == inflow \in Seq(Lines) /\ script \in Seq(Lines) /\ drained \in Seq(Lines)
NumbersOK ==
  /\ carried \in Nat /\ content_length \in Nat \cup {-1} /\ remaining \in Nat \cup {-1}
  /\ http_pc = "chunk_data" => remaining > 0
HopsOK == limit \in Limits /\ limit \in Nat /\ hop \in 0..limit
NamesOK ==
  /\ link \in {"down", "up", "ending"} /\ client \in {"none", "owned", "external"}
  /\ follow \in {"disable", "strict", "force"} /\ verb \in {"GET", "POST"}
  /\ http_pc \in {"idle", "connect", "write", "status", "headers", "head", "body",
                  "chunk_size", "chunk_data", "chunk_end", "trailers"}
  /\ headers \in BOOLEAN /\ chunked \in BOOLEAN /\ location \in BOOLEAN
  /\ late \in BOOLEAN /\ cut \in BOOLEAN /\ fetched \in BOOLEAN
  /\ answered \in Responses \cup {NoResponse}
HttpTypes == LinesOK /\ NumbersOK /\ HopsOK /\ NamesOK

Connection ==
  /\ link # "up" => script = <<>>
  /\ carried = 0 => link # "up" /\ inflow = <<>>
  /\ cut => link # "up"
  /\ http_pc = "write" /\ carried = 1 => inflow = <<>> /\ script = <<>>

Hops ==
  /\ http_pc \notin {"connect", "write", "status", "headers", "head"} => hop = 0
  /\ hop > 0 =>
       /\ IF http_pc \in {"connect", "write"} THEN ~headers ELSE ~with_headers
       /\ verb = "POST" => follow = "force"

(* On a connection of its own and as long as no wait has timed out, what   *)
(* has arrived and is to come is what is left of the response where the    *)
(* thread is in it; or all of it has been read; or nothing more can        *)
(* arrive, because the server has gone or the request was not sent.        *)
Expects(e) == Part(inflow \o script, e, cut)
Unknown == content_length = -1 /\ ~chunked
Known ==
  /\ content_length = IF answered.framing = "length" THEN answered.size ELSE -1
  /\ chunked = (answered.framing = "chunks")
InsideHead ==
  /\ answered \in Responses /\ drained = <<>> /\ ~fetched
  /\ \/ http_pc = "status" /\ ~location /\ Unknown /\ Expects(FromStatus(answered))
     \/ /\ http_pc = "headers" /\ status = answered.code
        /\ \/ answered.location /\ ~location /\ Unknown /\ Expects(FromLocation(answered))
           \/ location = answered.location /\ Unknown /\ Expects(FromFraming(answered))
           \/ location = answered.location /\ Known /\ Expects(FromBlank(answered))

HasHead == status = answered.code /\ location = answered.location
BeforeBody ==
  /\ http_pc \in {"head", "idle"} /\ drained = <<>> /\ ~fetched
  /\ Expects(Body(answered))
InsideBody ==
  /\ http_pc = "body" /\ ~chunked
  /\ remaining = IF answered.framing = "length" THEN answered.size - Len(drained) ELSE -1
  /\ Expects(Bytes(Len(drained) + 1, answered.size))
InsideChunks ==
  /\ chunked
  /\ \/ http_pc = "chunk_size" /\ Expects(FromSize(answered, Len(drained)))
     \/ /\ http_pc = "chunk_data" /\ remaining \in 1..answered.size - Len(drained)
        /\ Expects(FromData(answered, Len(drained), remaining))
     \/ http_pc = "chunk_end" /\ Expects(FromBreak(answered, Len(drained)))
     \/ http_pc = "trailers" /\ Len(drained) = answered.size /\ Expects(<<EmptyLine>>)
AfterHead ==
  answered \in Responses /\ HasHead /\ Known /\ (BeforeBody \/ InsideBody \/ InsideChunks)

Requesting == http_pc \in {"connect", "write", "status", "headers", "head"}
NothingLeft == inflow = <<>> /\ script = <<>>
AllRead == NothingLeft /\ Len(drained) = answered.size /\ HasHead /\ ~Requesting
NoMore == NothingLeft /\ link # "up" /\ (cut \/ (status = "send_failed" /\ ~Requesting))

Place == http_pc \in {"connect", "write"} \/ InsideHead \/ AfterHead \/ AllRead \/ NoMore
ReadSoFar == drained = Bytes(1, Len(drained)) /\ Len(drained) <= answered.size
OnTrack == carried = 1 /\ ~late => ReadSoFar /\ Place

HttpInv == HttpTypes /\ Connection /\ Hops /\ OnTrack

LEMMA OwnAnswerHolds ==
  ASSUME HttpInv
  PROVE  HttpOwnAnswer
<1>1. ASSUME carried = 1 /\ ~late, ~cut, http_pc = "idle", status # "send_failed"
      PROVE  HasHead /\ (fetched => Len(drained) = answered.size)
  <2>1. AfterHead \/ AllRead
    BY <1>1 DEF HttpInv, OnTrack, Place, InsideHead, NoMore
  <2>2. AfterHead => BeforeBody
    BY <1>1 DEF AfterHead, InsideBody, InsideChunks
  <2> QED
    BY <2>1, <2>2 DEF AfterHead, BeforeBody, AllRead
<1>2. hop <= limit
  <2>1. limit \in Nat /\ hop \in 0..limit
    BY DEF HttpInv, HttpTypes, HopsOK
  <2> QED
    BY <2>1
<1> QED
  BY <1>1, <1>2 DEF HttpOwnAnswer, HttpInv, OnTrack, ReadSoFar, Hops, HasHead

LEMMA HttpInvInit ==
  ASSUME HttpInit
  PROVE  HttpInv
<1>1. <<>> \in Seq(Lines)
  OBVIOUS
<1>2. LinesOK /\ NumbersOK /\ NamesOK
  BY <1>1 DEF HttpInit, LinesOK, NumbersOK, NamesOK
<1>3. HopsOK
  <2>1. limit \in Nat
    BY HttpAssumption DEF HttpInit
  <2> QED
    BY <2>1 DEF HttpInit, HopsOK
<1> QED
  BY <1>2, <1>3 DEF HttpTypes, HttpInit, HttpInv, Connection, Hops, OnTrack
------------------------------------------------------------------------------
(* Reading a line: the first of what has arrived when it is not a byte, or *)
(* nothing, which is late unless the connection is over.                   *)
LEMMA FirstLine ==
  ASSUME inflow \in Seq(Lines), LineEnds # {}
  PROVE  FirstOf(LineEnds) \in LineEnds /\ \A j \in LineEnds : FirstOf(LineEnds) <= j
<1>1. LineEnds \subseteq Nat
  BY DEF LineEnds
<1>2. \E i \in LineEnds : \A j \in LineEnds : i <= j
  BY <1>1, LeastNumber, Zenon
<1> QED
  BY <1>2, Zenon DEF FirstOf

LEMMA AnyLine ==
  ASSUME inflow \in Seq(Lines), late \in BOOLEAN, TakesLine
  PROVE  /\ inflow' \in Seq(Lines) /\ late' \in BOOLEAN /\ (late => late')
         /\ NextLine.n \in Nat /\ (inflow = <<>> => inflow' = <<>>)
<1>1. CASE LineEnds = {}
  <2>1. NextLine = EmptyLine \/ NextLine = Line("spoilt", 0)
    BY <1>1 DEF NextLine
  <2> QED
    BY <1>1, <2>1 DEF TakesLine, EmptyLine, Line
<1>2. CASE LineEnds # {}
  <2>1. FirstOf(LineEnds) \in 1..Len(inflow) /\ FirstOf(LineEnds) \in LineEnds
    BY <1>2, FirstLine DEF LineEnds
  <2>2. inflow # <<>> /\ 1 \in 1..Len(inflow)
    BY <2>1
  <2>3. NextLine \in Lines \/ NextLine = Line("spoilt", 0)
    BY <1>2, <2>2 DEF NextLine
  <2>4. NextLine.n \in Nat
    BY <2>3 DEF Lines, Line
  <2>5. inflow' = SubSeq(inflow, FirstOf(LineEnds) + 1, Len(inflow))
    BY <1>2 DEF TakesLine
  <2>6. inflow' \in Seq(Lines)
    BY <2>1, <2>5, CutLines
  <2> QED
    BY <1>2, <2>2, <2>4, <2>6 DEF TakesLine
<1> QED
  BY <1>1, <1>2

LEMMA NothingTaken ==
  ASSUME inflow = <<>>, TakesLine
  PROVE  NextLine = EmptyLine /\ inflow' = <<>> /\ late' = (late \/ link = "up")
<1>1. LineEnds = {}
  BY DEF LineEnds
<1> QED
  BY <1>1 DEF NextLine, TakesLine

LEMMA LineTaken ==
  ASSUME inflow \in Seq(Lines), script \in Seq(Lines), inflow # <<>>, TakesLine,
         NEW x \in Lines, x.kind # "byte", NEW f \in Seq(Lines), Expects(<<x>> \o f)
  PROVE  NextLine = x /\ inflow' \in Seq(Lines) /\ Part(inflow' \o script, f, cut)
<1> DEFINE a == SubSeq(inflow, 1, 1)
           b == SubSeq(inflow, 2, Len(inflow))
<1>1. 1 \in 0..Len(inflow) /\ 1 \in 1..Len(inflow)
  OBVIOUS
<1>2. /\ a \in Seq(Lines) /\ Len(a) = 1 /\ b \in Seq(Lines) /\ inflow = a \o b
  BY <1>1, CutLines
<1>3. a[1] = inflow[1]
  BY <1>1
<1> HIDE DEF a, b
<1>4. inflow \o script = a \o (b \o script) /\ b \o script \in Seq(Lines)
  BY <1>2
<1>5. a = <<x>> /\ Part(b \o script, f, cut)
  <2>1. Part(a \o (b \o script), <<x>> \o f, cut) /\ <<x>> \in Seq(Lines) /\ Len(<<x>>) = 1
    BY <1>4 DEF Expects
  <2> DEFINE y == <<x>>
             v == b \o script
  <2> HIDE DEF y, v
  <2>2. a = y /\ Part(v, f, cut)
    <3>1. Part(a \o v, y \o f, cut) /\ y \in Seq(Lines) /\ Len(a) = Len(y) /\ v \in Seq(Lines)
      BY <1>2, <1>4, <2>1 DEF y, v
    <3> QED
      BY <1>2, <3>1, PartSplits, Zenon
  <2> QED
    BY <2>2 DEF y, v
<1>6. inflow[1] = x
  BY <1>3, <1>5
<1>7. 1 \in LineEnds
  BY <1>1, <1>6 DEF LineEnds
<1>8. FirstOf(LineEnds) = 1
  <2>1. FirstOf(LineEnds) \in 1..Len(inflow) /\ FirstOf(LineEnds) <= 1
    BY <1>7, FirstLine DEF LineEnds
  <2> QED
    BY <2>1
<1>9. NextLine = x
  BY <1>6, <1>7, <1>8 DEF NextLine
<1>10. inflow' = b
  BY <1>7, <1>8 DEF TakesLine, b
<1> QED
  BY <1>2, <1>5, <1>9, <1>10

(* So a line that is expected is the one that is read, unless no more can  *)
(* arrive.                                                                 *)
Ended == inflow' = <<>> /\ script = <<>> /\ link # "up" /\ cut

LEMMA LineRead ==
  ASSUME HttpTypes, Connection, TakesLine, ~late',
         NEW x \in Lines, x.kind # "byte", NEW f \in Seq(Lines), Expects(<<x>> \o f)
  PROVE  Ended \/ (NextLine = x /\ Part(inflow' \o script, f, cut))
<1>1. CASE inflow # <<>>
  BY <1>1, LineTaken DEF HttpTypes, LinesOK
<1>2. CASE inflow = <<>>
  <2>1. inflow' = <<>> /\ link # "up"
    BY <1>2, NothingTaken
  <2>2. script = <<>>
    BY <2>1 DEF Connection
  <2>3. Part(<<>>, <<x>> \o f, cut)
    BY <1>2, <2>2 DEF Expects
  <2>4. <<x>> \o f \in Seq(Lines) /\ Len(<<x>> \o f) # 0
    OBVIOUS
  <2>5. cut
    <3> DEFINE e == <<x>> \o f
    <3>1. Part(<<>>, e, cut) /\ Len(e) # 0
      BY <2>3, <2>4
    <3>2. Len(<<>>) = 0
      OBVIOUS
    <3> HIDE DEF e
    <3> QED
      BY <3>1, <3>2 DEF Part
  <2> QED
    BY <2>1, <2>2, <2>5 DEF Ended
<1> QED
  BY <1>1, <1>2

(* Reading bytes.                                                          *)
LEMMA BytesTaken ==
  ASSUME inflow \in Seq(Lines), drained \in Seq(Lines), NEW n \in 1..Len(inflow), TakesBytes(n)
  PROVE  /\ inflow' \in Seq(Lines) /\ drained' \in Seq(Lines)
         /\ \E u \in Seq(Lines) : /\ Len(u) = n /\ inflow = u \o inflow'
                                  /\ drained' = drained \o u
<1> DEFINE u == SubSeq(inflow, 1, n)
           v == SubSeq(inflow, n + 1, Len(inflow))
<1>1. n \in 0..Len(inflow)
  OBVIOUS
<1>2. u \in Seq(Lines) /\ Len(u) = n /\ v \in Seq(Lines) /\ inflow = u \o v
  BY <1>1, CutLines, Zenon
<1>3. drained' = drained \o u /\ inflow' = v
  BY DEF TakesBytes
<1>4. drained' \in Seq(Lines)
  BY <1>2, <1>3
<1> HIDE DEF u, v
<1> QED
  BY <1>2, <1>3, <1>4
------------------------------------------------------------------------------
(* The types, action by action.                                            *)
LEMMA LinesKept ==
  ASSUME LinesOK, NamesOK, [HttpNext]_http_vars
  PROVE  LinesOK'
<1> USE DEF LinesOK, connection, http_config, http_head, request, watched
<1>0. <<>> \in Seq(Lines)
  OBVIOUS
<1>1. ASSUME NEW kind, HttpBegin(kind) PROVE LinesOK'
  BY <1>0, <1>1 DEF HttpBegin, Disconnects, Forgets
<1>2. ASSUME NEW mode, SetFollowRedirects(mode) PROVE LinesOK'
  BY <1>2 DEF SetFollowRedirects
<1>3. ASSUME NEW v, SendRequest(v) PROVE LinesOK'
  BY <1>0, <1>3 DEF SendRequest, Forgets
<1>4. CASE SendOnce \/ WriteFails
  BY <1>0, <1>4 DEF SendOnce, WriteFails, Disconnects, Forgets
<1>11. CASE WriteEnds
  <2>1. ASSUME NEW r \in Responses PROVE script \o OnTheWire(r) \in Seq(Lines)
    <3>1. OnTheWire(r) \in Seq(Lines)
      BY StagesAre, OnTheWireIs
    <3> QED
      BY <3>1
  <2>2. script' \in Seq(Lines) /\ inflow' \in Seq(Lines) /\ drained' = <<>>
    BY <1>0, <1>11, <2>1 DEF WriteEnds
  <2> QED
    BY <1>0, <2>2
<1>5. CASE ReadStatus \/ ReadHeader \/ ReadChunkLine
  <2>1. TakesLine /\ UNCHANGED <<script, drained>>
    BY <1>5 DEF ReadStatus, ReadHeader, ReadChunkLine
  <2>2. inflow' \in Seq(Lines)
    BY <2>1, AnyLine DEF NamesOK
  <2> QED
    BY <2>1, <2>2
<1>6. CASE Redirect
  BY <1>0, <1>6 DEF Redirect, LeavesHop, Disconnects
<1>7. CASE ReadBody \/ ReadChunk
  <2>1. PICK n \in 1..Len(inflow) : TakesBytes(n)
    BY <1>7 DEF ReadBody, ReadChunk
  <2>2. inflow' \in Seq(Lines) /\ drained' \in Seq(Lines)
    BY <2>1, BytesTaken
  <2> QED
    BY <1>7, <2>2 DEF ReadBody, ReadChunk
<1>8. CASE ServerSends
  <2>1. Append(inflow, Head(script)) \in Seq(Lines) /\ Tail(script) \in Seq(Lines)
    BY <1>8 DEF ServerSends
  <2> QED
    BY <1>8, <2>1 DEF ServerSends
<1>9. CASE ServerCloses
  BY <1>0, <1>9 DEF ServerCloses
<1>10. CASE AddHeader \/ GetString \/ HeadIsRead \/ WaitFails \/ UNCHANGED http_vars
  BY <1>10 DEF AddHeader, GetString, HeadIsRead, WaitFails, http_vars
<1> QED
  BY <1>1, <1>2, <1>3, <1>4, <1>5, <1>6, <1>7, <1>8, <1>9, <1>10, <1>11 DEF HttpNext, HttpSteps

LEMMA NumbersKept ==
  ASSUME LinesOK, NamesOK, NumbersOK, [HttpNext]_http_vars
  PROVE  NumbersOK'
<1> USE DEF NumbersOK, connection, http_config, http_head, request, watched
<1>1. ASSUME NEW kind, HttpBegin(kind) PROVE NumbersOK'
  BY <1>1 DEF HttpBegin, Disconnects
<1>2. ASSUME NEW mode, SetFollowRedirects(mode) PROVE NumbersOK'
  BY <1>2 DEF SetFollowRedirects
<1>3. ASSUME NEW v, SendRequest(v) PROVE NumbersOK'
  BY <1>3 DEF SendRequest
<1>4. CASE SendOnce
  <2>1. carried' \in Nat
    BY <1>4 DEF SendOnce, Disconnects
  <2>2. UNCHANGED <<content_length, remaining>> /\ http_pc' # "chunk_data"
    BY <1>4 DEF SendOnce, Answers
  <2> QED
    BY <2>1, <2>2
<1>13. CASE WriteFails \/ WriteEnds
  <2>1. /\ content_length' \in Nat \cup {-1} /\ UNCHANGED <<carried, remaining>>
        /\ http_pc' # "chunk_data"
    BY <1>13 DEF WriteFails, WriteEnds, Answers
  <2> QED
    BY <2>1
<1>5. CASE ReadStatus
  <2>1. UNCHANGED <<carried, content_length, remaining>> /\ http_pc' # "chunk_data"
    BY <1>5 DEF ReadStatus, Answers
  <2> QED
    BY <2>1
<1>6. CASE ReadHeader
  <2>1. NextLine.n \in Nat
    BY <1>6, AnyLine DEF ReadHeader, LinesOK, NamesOK
  <2> QED
    BY <1>6, <2>1 DEF ReadHeader
<1>7. CASE ReadChunkLine
  <2> DEFINE n == IF NextLine.kind = "size" THEN NextLine.n ELSE 0
  <2>1. n \in Nat
    BY <1>7, AnyLine DEF ReadChunkLine, LinesOK, NamesOK
  <2>2. /\ UNCHANGED <<carried, content_length>>
        /\ \/ remaining' = 0 /\ http_pc' = "idle"
           \/ remaining' = n /\ (http_pc' = "chunk_data" => n > 0)
    BY <1>7, <2>1 DEF ReadChunkLine, Fetched
  <2> HIDE DEF n
  <2> QED
    BY <2>1, <2>2
<1>8. CASE Redirect
  BY <1>8 DEF Redirect, LeavesHop, Disconnects, Answers
<1>9. CASE ReadBody
  <2>1. PICK n \in 1..Len(inflow) :
          /\ TakesBytes(n)
          /\ IF n = remaining THEN Fetched
             ELSE /\ remaining' = IF remaining > 0 THEN remaining - n ELSE remaining
                  /\ UNCHANGED <<http_pc, fetched>>
    BY <1>9 DEF ReadBody
  <2>2. n \in Nat /\ (remaining > 0 => n <= remaining)
    BY <2>1 DEF TakesBytes, LinesOK
  <2>3. UNCHANGED <<carried, content_length>> /\ http_pc = "body"
    BY <1>9 DEF ReadBody
  <2>4. CASE n = remaining
    BY <2>1, <2>3, <2>4 DEF Fetched
  <2>5. CASE n # remaining
    <3>1. remaining' = IF remaining > 0 THEN remaining - n ELSE remaining
      BY <2>1, <2>5
    <3>2. http_pc' = http_pc
      BY <2>1, <2>5
    <3> QED
      BY <2>2, <2>3, <3>1, <3>2
  <2> QED
    BY <2>4, <2>5
<1>10. CASE ReadChunk
  <2>1. PICK n \in 1..Len(inflow) :
          /\ TakesBytes(n) /\ remaining' = remaining - n
          /\ http_pc' = IF n = remaining THEN "chunk_end" ELSE "chunk_data"
    BY <1>10 DEF ReadChunk
  <2>2. n \in Nat /\ (remaining > 0 => n <= remaining)
    BY <2>1 DEF TakesBytes, LinesOK
  <2>3. UNCHANGED <<carried, content_length>> /\ http_pc = "chunk_data"
    BY <1>10 DEF ReadChunk
  <2> QED
    BY <2>1, <2>2, <2>3
<1>11. CASE GetString \/ WaitFails
  <2>1. UNCHANGED <<carried, content_length>>
    BY <1>11 DEF GetString, WaitFails
  <2>2. \/ remaining' = 0 /\ http_pc' = "idle"
        \/ remaining' = content_length /\ http_pc' # "chunk_data"
    BY <1>11 DEF GetString, WaitFails, Fetched
  <2> QED
    BY <2>1, <2>2
<1>12. CASE AddHeader \/ HeadIsRead \/ ServerSends \/ ServerCloses \/ UNCHANGED http_vars
  <2>1. UNCHANGED <<carried, content_length, remaining>>
    BY <1>12 DEF AddHeader, HeadIsRead, ServerSends, ServerCloses, http_vars
  <2>2. http_pc' = http_pc \/ http_pc' = "idle"
    BY <1>12 DEF AddHeader, HeadIsRead, ServerSends, ServerCloses, http_vars, Answers
  <2> QED
    BY <2>1, <2>2
<1> QED
  BY <1>1, <1>2, <1>3, <1>4, <1>5, <1>6, <1>7, <1>8, <1>9, <1>10, <1>11, <1>12,
     <1>13 DEF HttpNext, HttpSteps

LEMMA NamesKept ==
  ASSUME NamesOK, LinesOK, [HttpNext]_http_vars
  PROVE  NamesOK'
<1> USE DEF NamesOK, connection, http_config, http_head, request, watched
<1>1. ASSUME NEW kind \in {"none", "owned", "external"}, HttpBegin(kind) PROVE NamesOK'
  BY <1>1 DEF HttpBegin, Disconnects, Forgets
<1>2. ASSUME NEW mode \in {"disable", "strict", "force"}, SetFollowRedirects(mode) PROVE NamesOK'
  BY <1>2 DEF SetFollowRedirects
<1>3. ASSUME NEW v \in {"GET", "POST"}, SendRequest(v) PROVE NamesOK'
  BY <1>3 DEF SendRequest, Forgets
<1>4. CASE SendOnce
  <2>1. /\ link' \in {"down", "up", "ending"} /\ http_pc' \in {"idle", "write"}
        /\ verb' \in {"GET", "POST"} /\ answered' = NoResponse
        /\ ~late' /\ ~cut' /\ ~fetched' /\ late' \in BOOLEAN /\ cut' \in BOOLEAN
        /\ fetched' \in BOOLEAN
    BY <1>4 DEF SendOnce, Disconnects, Answers, Forgets
  <2>2. UNCHANGED <<http_config, http_head>>
    BY <1>4 DEF SendOnce
  <2> QED
    BY <2>1, <2>2
<1>15. CASE WriteFails
  BY <1>15 DEF WriteFails, Answers, Forgets
<1>16. CASE WriteEnds
  BY <1>16 DEF WriteEnds
<1>5. CASE ReadStatus
  <2>1. late' \in BOOLEAN
    BY <1>5, AnyLine DEF ReadStatus, LinesOK
  <2> QED
    BY <1>5, <2>1 DEF ReadStatus, Answers
<1>6. CASE ReadHeader
  <2>1. late' \in BOOLEAN
    BY <1>6, AnyLine DEF ReadHeader, LinesOK
  <2> QED
    BY <1>6, <2>1 DEF ReadHeader
<1>7. CASE ReadChunkLine
  <2>1. late' \in BOOLEAN
    BY <1>7, AnyLine DEF ReadChunkLine, LinesOK
  <2>2. http_pc' \in {"idle", "chunk_size", "chunk_data", "trailers"} /\ fetched' \in BOOLEAN
    BY <1>7 DEF ReadChunkLine, Fetched
  <2>3. UNCHANGED <<link, http_config, http_head, verb, answered, cut>>
    BY <1>7 DEF ReadChunkLine
  <2> QED
    BY <2>1, <2>2, <2>3
<1>8. CASE Redirect
  BY <1>8 DEF Redirect, LeavesHop, Disconnects, NextVerb, Answers
<1>9. CASE ReadBody \/ ReadChunk
  <2>1. UNCHANGED <<link, http_config, http_head, verb, answered, late, cut>>
    BY <1>9 DEF ReadBody, ReadChunk
  <2>2. http_pc' \in {"body", "idle", "chunk_data", "chunk_end"} /\ fetched' \in BOOLEAN
    BY <1>9 DEF ReadBody, ReadChunk, Fetched
  <2> QED
    BY <2>1, <2>2
<1>10. CASE GetString
  <2>1. http_pc' \in {"idle", "chunk_size", "body"} /\ fetched' \in BOOLEAN
    BY <1>10 DEF GetString, Fetched
  <2>2. UNCHANGED <<link, http_config, http_head, verb, answered, late, cut>>
    BY <1>10 DEF GetString
  <2> QED
    BY <2>1, <2>2
<1>11. CASE HeadIsRead
  BY <1>11 DEF HeadIsRead, Answers
<1>12. CASE WaitFails
  BY <1>12 DEF WaitFails, Fetched
<1>13. CASE ServerSends \/ ServerCloses
  BY <1>13 DEF ServerSends, ServerCloses
<1>14. CASE AddHeader \/ UNCHANGED http_vars
  BY <1>14 DEF AddHeader, http_vars
<1> QED
  BY <1>1, <1>2, <1>3, <1>4, <1>5, <1>6, <1>7, <1>8, <1>9, <1>10, <1>11, <1>12, <1>13, <1>14,
     <1>15, <1>16 DEF HttpNext, HttpSteps

(* A hop beyond the first carries no headers of the user's, and repeats a  *)
(* POST only when told to; the thread is in one until the call returns.    *)
LEMMA HopsKept ==
  ASSUME HopsOK, Hops, NamesOK, [HttpNext]_http_vars
  PROVE  HopsOK' /\ Hops'
<1> DEFINE Kept == HopsOK' /\ Hops'
<1> USE DEF HopsOK, Hops, connection, http_config, http_head, request, watched
<1>1. ASSUME NEW kind, HttpBegin(kind) PROVE Kept
  BY <1>1 DEF HttpBegin
<1>2. ASSUME NEW mode, SetFollowRedirects(mode) PROVE Kept
  BY <1>2 DEF SetFollowRedirects
<1>3. ASSUME NEW v, SendRequest(v) PROVE Kept
  BY <1>3 DEF SendRequest
<1>4. CASE SendOnce
  <2>1. UNCHANGED http_config /\ http_pc = "connect"
    BY <1>4 DEF SendOnce
  <2>2. \/ http_pc' = "idle" /\ hop' = 0
        \/ http_pc' = "write" /\ UNCHANGED request
    BY <1>4 DEF SendOnce, Answers
  <2> QED
    BY <2>1, <2>2
<1>16. CASE WriteFails
  BY <1>16 DEF WriteFails, Answers
<1>17. CASE WriteEnds
  BY <1>17 DEF WriteEnds
<1>5. CASE ReadStatus
  <2>1. UNCHANGED http_config /\ http_pc = "status"
    BY <1>5 DEF ReadStatus
  <2>2. \/ http_pc' = "idle" /\ hop' = 0
        \/ http_pc' = "headers" /\ UNCHANGED request
    BY <1>5 DEF ReadStatus, Answers
  <2> QED
    BY <2>1, <2>2
<1>6. CASE ReadHeader
  BY <1>6 DEF ReadHeader
<1>7. CASE ReadChunkLine
  BY <1>7 DEF ReadChunkLine, Fetched
<1>8. CASE Redirect
  BY <1>8 DEF Redirect, LeavesHop, Answers, NextVerb, Follows, NamesOK
<1>9. CASE ReadBody
  BY <1>9 DEF ReadBody, Fetched
<1>10. CASE ReadChunk
  BY <1>10 DEF ReadChunk
<1>11. CASE GetString
  BY <1>11 DEF GetString, Fetched
<1>12. CASE HeadIsRead
  BY <1>12 DEF HeadIsRead, Answers
<1>13. CASE WaitFails
  BY <1>13 DEF WaitFails, Fetched
<1>14. CASE ServerSends \/ ServerCloses
  BY <1>14 DEF ServerSends, ServerCloses
<1>15. CASE AddHeader \/ UNCHANGED http_vars
  BY <1>15 DEF AddHeader, http_vars
<1> QED
  BY <1>1, <1>2, <1>3, <1>4, <1>5, <1>6, <1>7, <1>8, <1>9, <1>10, <1>11, <1>12, <1>13, <1>14, <1>15,
     <1>16, <1>17 DEF HttpNext, HttpSteps

LEMMA ConnectionKept ==
  ASSUME LinesOK, NamesOK, NumbersOK, Connection, [HttpNext]_http_vars
  PROVE  Connection'
<1> USE DEF Connection, connection, http_config, http_head, request, watched
<1>1. ASSUME NEW kind, HttpBegin(kind) PROVE Connection'
  BY <1>1 DEF HttpBegin, Disconnects, Forgets
<1>2. ASSUME NEW mode, SetFollowRedirects(mode) PROVE Connection'
  BY <1>2 DEF SetFollowRedirects
<1>3. ASSUME NEW v, SendRequest(v) PROVE Connection'
  BY <1>3 DEF SendRequest, Forgets
<1>4. CASE SendOnce
  <2>1. CASE ~Connected /\ Disconnects /\ Answers("refused")
    BY <1>4, <2>1 DEF SendOnce, Disconnects, Answers, Forgets
  <2>2. CASE /\ http_pc' = "write"
             /\ link' = IF Connected THEN link ELSE "up"
             /\ carried' = (IF Connected THEN carried ELSE 0) + 1
             /\ UNCHANGED <<inflow, script, status, request>>
    <3>1. carried' # 0
      BY <2>2 DEF NumbersOK
    <3>2. carried' = 1 => inflow = <<>> /\ script = <<>>
      <4>1. CASE Connected
        BY <2>2, <4>1 DEF Connected, NumbersOK
      <4>2. CASE ~Connected
        BY <4>2 DEF Connected
      <4> QED
        BY <4>1, <4>2
    <3>3. link' # "up" => script' = <<>>
      BY <2>2
    <3>4. ~cut'
      BY <1>4 DEF SendOnce, Forgets
    <3> QED
      BY <2>2, <3>1, <3>2, <3>3, <3>4
  <2> QED
    BY <1>4, <2>1, <2>2 DEF SendOnce
<1>10. CASE WriteFails
  <2>1. link' = "ending" /\ script' = <<>> /\ UNCHANGED <<inflow, carried>> /\ http_pc' = "idle"
    BY <1>10 DEF WriteFails, Answers
  <2> QED
    BY <2>1
<1>11. CASE WriteEnds
  <2>1. /\ UNCHANGED <<link, inflow, carried>> /\ http_pc' = "status" /\ cut' = (link # "up")
        /\ link # "up" => script' = <<>>
    BY <1>11 DEF WriteEnds
  <2> QED
    BY <2>1
<1>5. CASE ReadStatus \/ ReadHeader \/ ReadChunkLine
  <2>1. TakesLine /\ UNCHANGED <<link, script, carried, cut>> /\ http_pc' # "write"
    BY <1>5 DEF ReadStatus, ReadHeader, ReadChunkLine, Answers, Fetched
  <2>2. inflow = <<>> => inflow' = <<>>
    BY <2>1, NothingTaken
  <2> QED
    BY <2>1, <2>2
<1>6. CASE Redirect
  BY <1>6 DEF Redirect, LeavesHop, Disconnects
<1>7. CASE ReadBody \/ ReadChunk
  <2>1. PICK n \in 1..Len(inflow) : TakesBytes(n)
    BY <1>7 DEF ReadBody, ReadChunk
  <2>2. inflow # <<>>
    OBVIOUS
  <2>3. UNCHANGED <<link, script, carried, cut>> /\ http_pc' # "write"
    BY <1>7 DEF ReadBody, ReadChunk, Fetched
  <2> QED
    BY <2>2, <2>3
<1>8. CASE ServerSends \/ ServerCloses
  BY <1>8 DEF ServerSends, ServerCloses
<1>9. CASE AddHeader \/ GetString \/ HeadIsRead \/ WaitFails \/ UNCHANGED http_vars
  <2>1. /\ UNCHANGED <<link, script, carried, inflow, cut>>
        /\ http_pc' = http_pc \/ http_pc' # "write"
    BY <1>9 DEF AddHeader, GetString, HeadIsRead, WaitFails, http_vars, Answers, Fetched
  <2> QED
    BY <2>1
<1> QED
  BY <1>1, <1>2, <1>3, <1>4, <1>5, <1>6, <1>7, <1>8, <1>9, <1>10, <1>11 DEF HttpNext, HttpSteps

LEMMA TypesKept ==
  ASSUME HttpTypes, Connection, Hops, [HttpNext]_http_vars
  PROVE  HttpTypes' /\ Connection' /\ Hops'
BY LinesKept, NumbersKept, NamesKept, HopsKept, ConnectionKept DEF HttpTypes
------------------------------------------------------------------------------
LEMMA NothingJoined ==
  ASSUME NEW s \in Seq(Lines), NEW t \in Seq(Lines), s \o t = <<>>
  PROVE  s = <<>> /\ t = <<>>
<1>1. Len(s) + Len(t) = 0 /\ Len(s) \in Nat /\ Len(t) \in Nat
  OBVIOUS
<1>2. Len(s) = 0 /\ Len(t) = 0
  BY <1>1
<1> QED
  BY <1>2

LEMMA NothingDrained == <<>> = Bytes(1, 0) /\ Len(<<>>) = 0
BY DEF Bytes

(* While the request is sent, nothing of a response has been read.         *)
LEMMA SendOnceOnTrack ==
  ASSUME SendOnce, carried' = 1
  PROVE  ReadSoFar' /\ Place'
<1>1. http_pc' = "write" /\ drained' = <<>> /\ answered'.size = 0
  BY DEF SendOnce, Disconnects, Forgets, NoResponse
<1> QED
  BY <1>1, NothingDrained DEF ReadSoFar, Place

LEMMA WriteFailsOnTrack ==
  ASSUME HttpTypes, Connection, WriteFails, carried' = 1
  PROVE  ReadSoFar' /\ Place'
<1>1. /\ http_pc = "write" /\ link' = "ending" /\ script' = <<>> /\ UNCHANGED <<inflow, carried>>
      /\ http_pc' = "idle" /\ status' = "send_failed" /\ drained' = <<>> /\ answered'.size = 0
  BY DEF WriteFails, Answers, Forgets, NoResponse
<1>2. inflow' = <<>>
  BY <1>1 DEF Connection
<1>3. NoMore'
  BY <1>1, <1>2 DEF NoMore, NothingLeft, Requesting
<1> QED
  BY <1>1, <1>3, NothingDrained DEF ReadSoFar, Place

LEMMA WriteEndsOnTrack ==
  ASSUME HttpTypes, Connection, WriteEnds, carried' = 1
  PROVE  ReadSoFar' /\ Place'
<1>1. PICK r \in Responses :
        /\ script' = IF link = "up" THEN script \o OnTheWire(r) ELSE <<>>
        /\ answered' = r
  BY DEF WriteEnds
<1>2. /\ http_pc' = "status" /\ drained' = <<>> /\ ~fetched' /\ ~location'
      /\ content_length' = -1 /\ ~chunked' /\ cut' = (link # "up") /\ inflow' = inflow
      /\ inflow = <<>> /\ script = <<>>
  BY DEF WriteEnds, Connection
<1>3. FromStatus(r) \in Seq(Lines) /\ OnTheWire(r) = FromStatus(r)
  BY StagesAre, OnTheWireIs
<1>4. Part(inflow' \o script', FromStatus(r), cut')
  <2>1. CASE link = "up"
    <3> DEFINE w == FromStatus(r)
    <3>1. script' = script \o w /\ w \in Seq(Lines)
      BY <1>1, <1>3, <2>1
    <3> HIDE DEF w
    <3>2. inflow' \o script' = w
      BY <1>2, <3>1
    <3> QED
      BY <1>3, <3>2, WholePart DEF w
  <2>2. CASE link # "up"
    <3>1. inflow' \o script' = <<>> /\ cut'
      BY <1>1, <1>2, <2>2, NoLines
    <3> QED
      BY <1>2, <1>3, <2>2, <3>1, NoPart DEF Part
  <2> QED
    BY <2>1, <2>2
<1>5. InsideHead'
  BY <1>1, <1>2, <1>4 DEF InsideHead, Unknown, Expects
<1>6. r.size \in Nat
  BY ResponseIs
<1> QED
  BY <1>1, <1>2, <1>5, <1>6, NothingDrained DEF ReadSoFar, Place

(* What stays when a line is read, and what ends then.                     *)
LEMMA NoMoreStays ==
  ASSUME NoMore, ~Requesting', TakesLine, UNCHANGED <<link, script, cut, status>>
  PROVE  NoMore'
<1>1. inflow' = <<>>
  BY NothingTaken DEF NoMore, NothingLeft
<1> QED
  BY <1>1 DEF NoMore, NothingLeft

LEMMA EndedIsNoMore ==
  ASSUME Ended, UNCHANGED <<link, script, cut>>
  PROVE  NoMore'
BY DEF Ended, NoMore, NothingLeft

LEMMA ReadStatusOnTrack ==
  ASSUME HttpTypes, Connection, ReadStatus, ~late', ReadSoFar, Place
  PROVE  ReadSoFar' /\ Place'
<1>1. /\ http_pc = "status" /\ TakesLine
      /\ UNCHANGED <<link, script, carried, answered, cut, drained, fetched>>
      /\ UNCHANGED <<content_length, chunked, location>>
  BY DEF ReadStatus, http_head
<1>2. ReadSoFar'
  BY <1>1 DEF ReadSoFar
<1>3. CASE InsideHead
  <2> DEFINE x == Line(answered.code, 0)
  <2>1. /\ answered \in Responses /\ drained = <<>> /\ ~fetched /\ ~location /\ Unknown
        /\ Expects(FromStatus(answered))
    BY <1>1, <1>3 DEF InsideHead
  <2>2. x \in Lines /\ x.kind = answered.code /\ x.kind # "byte" /\ answered.code \in Codes
    BY <2>1, ResponseIs, LineIs, HttpAssumption
  <2>3. FromLocation(answered) \in Seq(Lines) /\ FromFraming(answered) \in Seq(Lines)
    BY <2>1, StagesAre
  <2>4. Expects(<<x>> \o FromLocation(answered))
    BY <2>1 DEF FromStatus
  <2> HIDE DEF x
  <2>5. Ended \/ (NextLine = x /\ Part(inflow' \o script, FromLocation(answered), cut))
    BY <1>1, <2>2, <2>3, <2>4, LineRead
  <2>6. CASE NextLine = x /\ Part(inflow' \o script, FromLocation(answered), cut)
    <3>1. http_pc' = "headers" /\ status' = answered.code
      BY <2>2, <2>6 DEF ReadStatus
    <3>2. CASE answered.location
      BY <1>1, <1>2, <2>1, <2>6, <3>1, <3>2 DEF Place, InsideHead, Unknown, Expects
    <3>3. CASE ~answered.location
      <4>1. FromLocation(answered) = FromFraming(answered)
        BY <2>3, <3>3, NoLines DEF FromLocation, Where
      <4>2. location' = answered'.location
        <5>1. answered.location \in BOOLEAN
          BY <2>1, ResponseIs
        <5> QED
          BY <1>1, <2>1, <3>3, <5>1 DEF HttpTypes, NamesOK
      <4> QED
        BY <1>1, <1>2, <2>1, <2>6, <3>1, <4>1, <4>2 DEF Place, InsideHead, Unknown, Expects
    <3> QED
      BY <3>2, <3>3
  <2> QED
    BY <1>1, <1>2, <2>5, <2>6, EndedIsNoMore DEF Place
<1>4. CASE NoMore
  <2>1. cut /\ inflow = <<>>
    BY <1>1, <1>4 DEF NoMore, Requesting, NothingLeft
  <2>2. inflow' = <<>>
    BY <1>1, <2>1, NothingTaken
  <2>3. NoMore'
    BY <1>1, <1>4, <2>1, <2>2 DEF NoMore, NothingLeft
  <2> QED
    BY <1>2, <2>3 DEF Place
<1> QED
  BY <1>1, <1>2, <1>3, <1>4
  DEF Place, AllRead, Requesting, AfterHead, BeforeBody, InsideBody, InsideChunks

LEMMA ReadHeaderOnTrack ==
  ASSUME HttpTypes, Connection, ReadHeader, ~late', ReadSoFar, Place
  PROVE  ReadSoFar' /\ Place'
<1>1. /\ http_pc = "headers" /\ TakesLine
      /\ UNCHANGED <<link, script, carried, status, answered, cut, drained, fetched>>
      /\ content_length' = (IF NextLine.kind = "length" THEN NextLine.n ELSE content_length)
      /\ chunked' = (chunked \/ NextLine.kind = "chunked")
      /\ location' = (location \/ NextLine.kind = "location")
      /\ http_pc' = IF NextLine = EmptyLine THEN "head" ELSE "headers"
  BY DEF ReadHeader
<1>2. ReadSoFar'
  BY <1>1 DEF ReadSoFar
<1>3. chunked \in BOOLEAN /\ location \in BOOLEAN
  BY DEF HttpTypes, NamesOK
<1>4. ASSUME Ended PROVE Place'
  BY <1>1, <1>4, EndedIsNoMore DEF Place
<1>5. ASSUME answered \in Responses, status = answered.code, drained = <<>>, ~fetched,
             location = answered.location, Known, Expects(FromBlank(answered))
      PROVE  Place'
  <2>1. EmptyLine \in Lines /\ EmptyLine.kind = "blank" /\ Body(answered) \in Seq(Lines)
    BY <1>5, EmptyLineIs, StagesAre
  <2>2. Expects(<<EmptyLine>> \o Body(answered))
    BY <1>5 DEF FromBlank
  <2>3. Ended \/ (NextLine = EmptyLine /\ Part(inflow' \o script, Body(answered), cut))
    BY <1>1, <2>1, <2>2, LineRead
  <2>4. CASE NextLine = EmptyLine /\ Part(inflow' \o script, Body(answered), cut)
    <3>1. /\ http_pc' = "head" /\ content_length' = content_length
          /\ chunked' = chunked /\ location' = location
      BY <1>1, <1>3, <2>1, <2>4
    <3> QED
      BY <1>1, <1>5, <2>4, <3>1 DEF Place, AfterHead, BeforeBody, HasHead, Known, Expects
  <2> QED
    BY <1>4, <2>3, <2>4
<1>6. ASSUME answered \in Responses, status = answered.code, drained = <<>>, ~fetched,
             location = answered.location, Unknown, Expects(FromFraming(answered))
      PROVE  Place'
  <2>1. /\ FromBlank(answered) \in Seq(Lines) /\ answered.size \in Nat
        /\ answered.framing \in {"length", "close", "chunks"}
    BY <1>6, ResponseIs, StagesAre
  <2>2. CASE answered.framing = "close"
    <3>1. FromFraming(answered) = FromBlank(answered)
      BY <2>1, <2>2, NoLines DEF FromFraming, Framing
    <3>2. Known
      BY <1>3, <1>6, <2>2 DEF Known, Unknown
    <3> QED
      BY <1>5, <1>6, <3>1, <3>2
  <2>3. CASE answered.framing = "length"
    <3> DEFINE x == Line("length", answered.size)
    <3>1. x \in Lines /\ x.kind = "length" /\ x.n = answered.size
      <4>1. "length" \in LineKinds
        BY DEF LineKinds
      <4> QED
        BY <2>1, <4>1, LineIs, Zenon
    <3>2. Expects(<<x>> \o FromBlank(answered))
      BY <1>6, <2>3 DEF FromFraming, Framing
    <3> HIDE DEF x
    <3>3. Ended \/ (NextLine = x /\ Part(inflow' \o script, FromBlank(answered), cut))
      BY <1>1, <2>1, <3>1, <3>2, LineRead
    <3>4. CASE NextLine = x /\ Part(inflow' \o script, FromBlank(answered), cut)
      <4>1. NextLine # EmptyLine
        BY <3>1, <3>4, EmptyLineIs
      <4>2. /\ http_pc' = "headers" /\ content_length' = answered.size
            /\ chunked' = chunked /\ location' = location
        BY <1>1, <1>3, <3>1, <3>4, <4>1
      <4>3. Known'
        <5>1. chunked' = FALSE /\ (answered.framing = "chunks") = FALSE
          BY <1>3, <1>6, <2>3, <4>2 DEF Unknown
        <5>2. answered' = answered /\ content_length' = answered.size
          BY <1>1, <4>2
        <5> QED
          BY <2>3, <5>1, <5>2 DEF Known
      <4> QED
        BY <1>1, <1>6, <3>4, <4>2, <4>3 DEF Place, InsideHead, Expects
    <3> QED
      BY <1>4, <3>3, <3>4
  <2>4. CASE answered.framing = "chunks"
    <3> DEFINE x == Line("chunked", 0)
    <3>1. x \in Lines /\ x.kind = "chunked"
      BY LineIs DEF LineKinds
    <3>2. Expects(<<x>> \o FromBlank(answered))
      BY <1>6, <2>4 DEF FromFraming, Framing
    <3> HIDE DEF x
    <3>3. Ended \/ (NextLine = x /\ Part(inflow' \o script, FromBlank(answered), cut))
      BY <1>1, <2>1, <3>1, <3>2, LineRead
    <3>4. CASE NextLine = x /\ Part(inflow' \o script, FromBlank(answered), cut)
      <4>1. NextLine # EmptyLine
        BY <3>1, <3>4, EmptyLineIs
      <4>2. /\ http_pc' = "headers" /\ content_length' = content_length
            /\ chunked' /\ location' = location
        BY <1>1, <1>3, <3>1, <3>4, <4>1
      <4>3. chunked' = TRUE
        BY <1>1, <3>1, <3>4
      <4>4. Known'
        BY <1>1, <1>6, <2>4, <4>2, <4>3 DEF Known, Unknown
      <4> QED
        BY <1>1, <1>6, <3>4, <4>2, <4>4 DEF Place, InsideHead, Expects
    <3> QED
      BY <1>4, <3>3, <3>4
  <2> QED
    BY <2>1, <2>2, <2>3, <2>4
<1>7. ASSUME answered \in Responses, status = answered.code, drained = <<>>, ~fetched,
             answered.location, ~location, Unknown, Expects(FromLocation(answered))
      PROVE  Place'
  <2> DEFINE x == Line("location", 0)
  <2>1. x \in Lines /\ x.kind = "location" /\ FromFraming(answered) \in Seq(Lines)
    BY <1>7, LineIs, StagesAre DEF LineKinds
  <2>2. Expects(<<x>> \o FromFraming(answered))
    BY <1>7 DEF FromLocation, Where
  <2> HIDE DEF x
  <2>3. Ended \/ (NextLine = x /\ Part(inflow' \o script, FromFraming(answered), cut))
    BY <1>1, <2>1, <2>2, LineRead
  <2>4. CASE NextLine = x /\ Part(inflow' \o script, FromFraming(answered), cut)
    <3>1. NextLine # EmptyLine
      BY <2>1, <2>4, EmptyLineIs
    <3>2. /\ http_pc' = "headers" /\ content_length' = content_length
          /\ chunked' = chunked /\ location' = TRUE
      BY <1>1, <1>3, <2>1, <2>4, <3>1
    <3>3. location' = answered'.location
      <4>1. answered.location = TRUE
        BY <1>7, ResponseIs
      <4> QED
        BY <1>1, <3>2, <4>1
    <3> QED
      BY <1>1, <1>7, <2>4, <3>2, <3>3 DEF Place, InsideHead, Unknown, Expects
  <2> QED
    BY <1>4, <2>3, <2>4
<1>8. CASE InsideHead
  <2>1. answered \in Responses /\ drained = <<>> /\ ~fetched /\ status = answered.code
    BY <1>1, <1>8 DEF InsideHead
  <2> QED
    BY <1>1, <1>2, <1>5, <1>6, <1>7, <1>8, <2>1 DEF InsideHead
<1>9. CASE NoMore
  <2>1. cut /\ inflow = <<>>
    BY <1>1, <1>9 DEF NoMore, Requesting, NothingLeft
  <2>2. inflow' = <<>>
    BY <1>1, <2>1, NothingTaken
  <2>3. NoMore'
    BY <1>1, <1>9, <2>1, <2>2 DEF NoMore, NothingLeft
  <2> QED
    BY <1>2, <2>3 DEF Place
<1> QED
  BY <1>1, <1>8, <1>9
  DEF Place, AllRead, Requesting, AfterHead, BeforeBody, InsideBody, InsideChunks

LEMMA HeadIsReadOnTrack ==
  ASSUME HeadIsRead, ReadSoFar, Place
  PROVE  ReadSoFar' /\ Place'
<1>1. /\ http_pc = "head" /\ http_pc' = "idle" /\ status' = status
      /\ UNCHANGED <<inflow, script, link, cut, drained, fetched, answered>>
      /\ UNCHANGED <<content_length, chunked, location>>
  BY DEF HeadIsRead, Answers, connection, http_head, watched
<1>2. ReadSoFar'
  BY <1>1 DEF ReadSoFar
<1>3. CASE AfterHead
  <2>1. answered \in Responses /\ HasHead /\ Known /\ BeforeBody
    BY <1>1, <1>3 DEF AfterHead, InsideBody, InsideChunks
  <2>2. BeforeBody'
    BY <1>1, <2>1 DEF BeforeBody, Expects
  <2>3. HasHead' /\ Known'
    BY <1>1, <2>1 DEF HasHead, Known
  <2> QED
    BY <1>1, <1>2, <2>1, <2>2, <2>3 DEF Place, AfterHead
<1>4. CASE NoMore
  BY <1>1, <1>2, <1>4 DEF NoMore, NothingLeft, Requesting, Place
<1> QED
  BY <1>1, <1>3, <1>4 DEF Place, InsideHead, AllRead, Requesting

LEMMA GetStringOnTrack ==
  ASSUME HttpTypes, GetString, ReadSoFar, Place
  PROVE  ReadSoFar' /\ Place'
<1>1. /\ http_pc = "idle" /\ http_pc' \in {"idle", "chunk_size", "body"}
      /\ UNCHANGED <<inflow, script, link, cut, drained, answered, status>>
      /\ UNCHANGED <<content_length, chunked, location>>
  BY DEF GetString, Fetched, connection, http_head
<1>2. ReadSoFar'
  BY <1>1 DEF ReadSoFar
<1>3. CASE AfterHead
  <2>1. answered \in Responses /\ HasHead /\ Known /\ BeforeBody
    BY <1>1, <1>3 DEF AfterHead, InsideBody, InsideChunks
  <2>2. HasHead' /\ Known' /\ answered' \in Responses
    BY <1>1, <2>1 DEF HasHead, Known
  <2>3. Len(drained) = 0 /\ Expects(Body(answered))
    BY <2>1 DEF BeforeBody
  <2>4. /\ answered.framing \in {"length", "close", "chunks"} /\ answered.size \in Nat
        /\ chunked \in BOOLEAN
    BY <2>1, ResponseIs DEF HttpTypes, NamesOK
  <2>5. CASE chunked
    <3>1. http_pc' = "chunk_size"
      BY <2>5 DEF GetString
    <3>2. Body(answered) = FromSize(answered, 0)
      <4>1. answered.framing = "chunks"
        BY <2>1, <2>5 DEF Known
      <4> QED
        BY <4>1 DEF Body, FromSize
    <3>3. InsideChunks'
      BY <1>1, <2>3, <2>5, <3>1, <3>2 DEF InsideChunks, Expects
    <3> QED
      BY <1>2, <2>2, <3>3 DEF Place, AfterHead
  <2>6. CASE ~chunked
    <3>1. Body(answered) = Bytes(1, answered.size) /\ answered.framing # "chunks"
      BY <2>1, <2>4, <2>6 DEF Known, Body
    <3>2. CASE content_length = 0
      <4>1. http_pc' = "idle"
        BY <2>6, <3>2 DEF GetString, Fetched
      <4>2. answered.size = 0
        BY <2>1, <3>2 DEF Known
      <4>3. Part(inflow \o script, <<>>, cut)
        BY <2>3, <3>1, <4>2, NothingDrained DEF Expects
      <4>4. inflow \o script = <<>>
        BY <4>3, PartOfNone
      <4>5. inflow = <<>> /\ script = <<>>
        BY <4>4, NothingJoined DEF HttpTypes, LinesOK
      <4>6. AllRead'
        BY <1>1, <2>2, <2>3, <4>1, <4>2, <4>5 DEF AllRead, NothingLeft, Requesting
      <4> QED
        BY <1>2, <4>6 DEF Place
    <3>3. CASE content_length # 0
      <4>1. http_pc' = "body" /\ remaining' = content_length
        BY <2>6, <3>3 DEF GetString
      <4>2. remaining' = IF answered.framing = "length" THEN answered.size - 0 ELSE -1
        BY <2>1, <2>4, <4>1 DEF Known
      <4>3. Expects(Bytes(0 + 1, answered.size))
        BY <2>3, <3>1
      <4>4. InsideBody'
        BY <1>1, <2>3, <2>6, <4>1, <4>2, <4>3 DEF InsideBody, Expects
      <4> QED
        BY <1>2, <2>2, <4>4 DEF Place, AfterHead
    <3> QED
      BY <3>2, <3>3
  <2> QED
    BY <2>5, <2>6
<1>4. CASE AllRead
  <2>1. AllRead'
    BY <1>1, <1>4 DEF AllRead, NothingLeft, HasHead, Requesting
  <2> QED
    BY <1>2, <2>1 DEF Place
<1>5. CASE NoMore
  <2>1. NoMore'
    BY <1>1, <1>5 DEF NoMore, NothingLeft, Requesting
  <2> QED
    BY <1>2, <2>1 DEF Place
<1> QED
  BY <1>1, <1>3, <1>4, <1>5 DEF Place, InsideHead

(* The bytes that come next are taken.                                     *)
LEMMA BytesMoveOn ==
  ASSUME inflow \in Seq(Lines), script \in Seq(Lines), drained \in Seq(Lines), ReadSoFar,
         NEW n \in 1..Len(inflow), TakesBytes(n),
         NEW f \in Seq(Lines), Expects(Bytes(Len(drained) + 1, Len(drained) + n) \o f)
  PROVE  /\ drained' = Bytes(1, Len(drained) + n) /\ Len(drained') = Len(drained) + n
         /\ Part(inflow' \o script, f, cut)
<1> DEFINE d == Len(drained)
           b == Bytes(d + 1, d + n)
           a == Bytes(1, d)
<1>1. d \in Nat /\ n \in Nat
  OBVIOUS
<1>2. PICK u \in Seq(Lines) :
        Len(u) = n /\ inflow = u \o inflow' /\ drained' = drained \o u
  BY BytesTaken, Zenon
<1>3. inflow' \in Seq(Lines)
  BY BytesTaken
<1>4. b \in Seq(Lines) /\ Len(b) = n
  <2>1. d + 1 \in Nat \ {0} /\ d + n \in Nat /\ d + 1 <= (d + n) + 1 /\ (d + n) - (d + 1) + 1 = n
    BY <1>1
  <2>2. b \in Seq(Lines) /\ Len(b) = (d + n) - (d + 1) + 1
    BY <2>1, BytesAre, Zenon
  <2> QED
    BY <2>1, <2>2
<1>5. inflow \o script = u \o (inflow' \o script) /\ inflow' \o script \in Seq(Lines)
  BY <1>2, <1>3
<1>6. Part(u \o (inflow' \o script), b \o f, cut)
  BY <1>5 DEF Expects
<1>7. u = b /\ Part(inflow' \o script, f, cut)
  <2> DEFINE v == inflow' \o script
  <2>1. Part(u \o v, b \o f, cut) /\ v \in Seq(Lines) /\ Len(u) = Len(b)
    BY <1>2, <1>4, <1>5, <1>6
  <2> HIDE DEF v, b
  <2>2. u = b /\ Part(v, f, cut)
    BY <1>2, <1>4, <2>1, PartSplits, Zenon
  <2> QED
    BY <2>2 DEF v
<1>8. a \o b = Bytes(1, d + n)
  <2>1. 1 \in Nat \ {0} /\ d + n \in Nat /\ 1 <= d + 1 /\ d <= d + n
    BY <1>1
  <2> QED
    BY <1>1, <2>1, BytesJoin, Zenon
<1>9. drained' = Bytes(1, d + n)
  <2>1. drained = a
    BY DEF ReadSoFar
  <2> HIDE DEF a, b
  <2> QED
    BY <1>2, <1>7, <1>8, <2>1
<1>10. Len(drained') = d + n
  <2>1. drained' = drained \o u /\ Len(u) = n
    BY <1>2
  <2>2. Len(drained \o u) = Len(drained) + Len(u)
    OBVIOUS
  <2> QED
    BY <2>1, <2>2
<1> QED
  BY <1>7, <1>9, <1>10

LEMMA ReadBodyOnTrack ==
  ASSUME HttpTypes, ReadBody, ReadSoFar, Place
  PROVE  ReadSoFar' /\ Place'
<1> DEFINE d == Len(drained)
           s == answered.size
<1>1. PICK n \in 1..Len(inflow) :
        /\ TakesBytes(n)
        /\ IF n = remaining THEN Fetched
           ELSE /\ remaining' = IF remaining > 0 THEN remaining - n ELSE remaining
                /\ UNCHANGED <<http_pc, fetched>>
  BY DEF ReadBody
<1>2. /\ http_pc = "body" /\ n <= Len(inflow) /\ (remaining > 0 => n <= remaining)
      /\ UNCHANGED <<script, link, cut, answered, status, content_length, chunked, location>>
  BY <1>1 DEF ReadBody, http_head, TakesBytes
<1>3. inflow \in Seq(Lines) /\ script \in Seq(Lines) /\ drained \in Seq(Lines)
      /\ remaining \in Nat \cup {-1}
  BY DEF HttpTypes, LinesOK, NumbersOK
<1>4. inflow # <<>> /\ d \in Nat /\ n \in Nat \ {0} /\ Len(inflow) \in Nat
  BY <1>3
<1>5. /\ answered \in Responses /\ HasHead /\ Known /\ ~chunked
      /\ remaining = IF answered.framing = "length" THEN s - d ELSE -1
      /\ Expects(Bytes(d + 1, s))
  BY <1>2, <1>4 DEF Place, InsideHead, AllRead, NoMore, NothingLeft, AfterHead, BeforeBody, InsideBody,
     InsideChunks
<1>6. s \in Nat /\ d <= s
  BY <1>5, ResponseIs DEF ReadSoFar
<1>7. d + n <= s
  <2>1. d + 1 \in Nat \ {0} /\ d + 1 <= s + 1 /\ s - (d + 1) + 1 = s - d
    BY <1>4, <1>6
  <2>2. Len(Bytes(d + 1, s)) = s - (d + 1) + 1
    BY <1>6, <2>1, BytesAre, Zenon
  <2>3. Len(inflow \o script) <= Len(Bytes(d + 1, s))
    BY <1>5 DEF Expects, Part
  <2>4. Len(inflow \o script) = Len(inflow) + Len(script) /\ Len(script) \in Nat
    BY <1>3
  <2> QED
    BY <1>2, <1>4, <1>6, <2>1, <2>2, <2>3, <2>4
<1>8. Bytes(d + 1, s) = Bytes(d + 1, d + n) \o Bytes(d + n + 1, s) /\ Bytes(d + n + 1, s) \in Seq(Lines)
  <2>1. /\ d + 1 \in Nat \ {0} /\ d + n \in Nat /\ d + 1 <= (d + n) + 1 /\ d + n <= s
        /\ (d + n) + 1 \in Nat \ {0} /\ (d + n) + 1 <= s + 1
    BY <1>4, <1>6, <1>7
  <2> QED
    BY <1>6, <2>1, BytesJoin, BytesAre, Zenon
<1>9. /\ drained' = Bytes(1, d + n) /\ Len(drained') = d + n
      /\ Part(inflow' \o script, Bytes(d + n + 1, s), cut)
  <2>1. Expects(Bytes(d + 1, d + n) \o Bytes(d + n + 1, s))
    BY <1>5, <1>8
  <2> QED
    BY <1>1, <1>3, <1>8, <2>1, BytesMoveOn, Zenon
<1> HIDE DEF d, s
<1>10. ReadSoFar'
  BY <1>2, <1>7, <1>9 DEF ReadSoFar, s
<1>11. HasHead' /\ Known' /\ answered' \in Responses
  BY <1>2, <1>5 DEF HasHead, Known
<1>12. CASE n = remaining
  <2>1. answered.framing = "length" /\ d + n = s
    BY <1>4, <1>5, <1>6, <1>12
  <2>2. http_pc' = "idle"
    BY <1>1, <1>12 DEF Fetched
  <2>3. Bytes(d + n + 1, s) = <<>>
    BY <1>6, <2>1, NoBytesAre
  <2>4. inflow' \o script = <<>>
    BY <1>9, <2>3, PartOfNone
  <2>5. inflow' = <<>> /\ script = <<>>
    <3>1. inflow' \in Seq(Lines)
      BY <1>1, <1>3, BytesTaken
    <3> QED
      BY <1>3, <2>4, <3>1, NothingJoined
  <2>6. AllRead'
    BY <1>2, <1>9, <1>11, <2>1, <2>2, <2>5 DEF AllRead, NothingLeft, Requesting, s
  <2> QED
    BY <1>10, <2>6 DEF Place
<1>13. CASE n # remaining
  <2>1. http_pc' = "body" /\ remaining' = IF remaining > 0 THEN remaining - n ELSE remaining
    BY <1>1, <1>2, <1>13
  <2>2. remaining' = IF answered.framing = "length" THEN s - (d + n) ELSE -1
    BY <1>2, <1>4, <1>5, <1>6, <1>7, <2>1
  <2>3. InsideBody'
    BY <1>2, <1>5, <1>9, <2>1, <2>2 DEF InsideBody, Expects, s
  <2> QED
    BY <1>10, <1>11, <2>3 DEF Place, AfterHead
<1> QED
  BY <1>12, <1>13

LEMMA ReadChunkOnTrack ==
  ASSUME HttpTypes, ReadChunk, ReadSoFar, Place
  PROVE  ReadSoFar' /\ Place'
<1> DEFINE d == Len(drained)
           s == answered.size
           m == remaining
<1>1. PICK n \in 1..Len(inflow) :
        /\ TakesBytes(n) /\ remaining' = m - n
        /\ http_pc' = IF n = m THEN "chunk_end" ELSE "chunk_data"
  BY DEF ReadChunk
<1>2. /\ http_pc = "chunk_data" /\ n <= Len(inflow) /\ (m > 0 => n <= m)
      /\ UNCHANGED <<script, link, cut, answered, status, content_length, chunked, location>>
  BY <1>1 DEF ReadChunk, http_head, TakesBytes
<1>3. inflow \in Seq(Lines) /\ script \in Seq(Lines) /\ drained \in Seq(Lines)
  BY DEF HttpTypes, LinesOK
<1>4. inflow # <<>> /\ d \in Nat /\ n \in Nat \ {0}
  BY <1>3
<1>5. /\ answered \in Responses /\ HasHead /\ Known /\ chunked
      /\ m \in 1..s - d /\ Expects(FromData(answered, d, m))
  BY <1>2, <1>4 DEF Place, InsideHead, AllRead, NoMore, NothingLeft, AfterHead, BeforeBody, InsideBody,
     InsideChunks
<1>6. s \in Nat /\ answered.framing = "chunks"
  BY <1>5, ResponseIs DEF Known
<1>7. /\ m \in Nat \ {0} /\ n \in 0..m /\ d + m <= s /\ d + n \in Nat /\ m - n \in Nat
      /\ (d + n) + (m - n) <= s /\ d + n <= s
  BY <1>2, <1>4, <1>5, <1>6
<1>8. /\ FromData(answered, d, m) = Bytes(d + 1, d + n) \o FromData(answered, d + n, m - n)
      /\ FromData(answered, d + n, m - n) \in Seq(Lines)
  <2>1. d \in Nat /\ m \in Nat /\ answered \in Responses
    BY <1>4, <1>5, <1>7
  <2>2. FromData(answered, d, m) = Bytes(d + 1, d + n) \o FromData(answered, d + n, m - n)
    BY <1>6, <1>7, <2>1, DataSplits, Zenon
  <2>3. FromData(answered, d + n, m - n) \in Seq(Lines)
    BY <1>6, <1>7, <2>1, FromDataIs, Zenon
  <2> QED
    BY <2>2, <2>3
<1>9. /\ drained' = Bytes(1, d + n) /\ Len(drained') = d + n
      /\ Part(inflow' \o script, FromData(answered, d + n, m - n), cut)
  <2>1. Expects(Bytes(d + 1, d + n) \o FromData(answered, d + n, m - n))
    BY <1>5, <1>8
  <2> QED
    BY <1>1, <1>3, <1>8, <2>1, BytesMoveOn, Zenon
<1> HIDE DEF d, s, m
<1>10. ReadSoFar'
  BY <1>2, <1>7, <1>9 DEF ReadSoFar, s
<1>11. HasHead' /\ Known' /\ answered' \in Responses /\ chunked'
  BY <1>2, <1>5 DEF HasHead, Known
<1>12. CASE n = m
  <2>1. http_pc' = "chunk_end"
    BY <1>1, <1>12
  <2>2. FromData(answered, d + n, m - n) = FromBreak(answered, d + n)
    <3>1. m - n = 0 /\ (d + n) + 0 = d + n /\ d + n \in Nat
      BY <1>7, <1>12
    <3>2. FromData(answered, d + n, 0) = Bytes((d + n) + 1, d + n) \o FromBreak(answered, d + n)
      BY <3>1 DEF FromData
    <3>3. Bytes((d + n) + 1, d + n) = <<>>
      BY <3>1, NoBytesAre
    <3>4. FromBreak(answered, d + n) \in Seq(Lines)
      BY <1>5, <1>6, <1>7, FromSizeIs DEF s
    <3> QED
      BY <3>1, <3>2, <3>3, <3>4, NoLines
  <2>3. InsideChunks'
    BY <1>2, <1>9, <1>11, <2>1, <2>2 DEF InsideChunks, Expects
  <2> QED
    BY <1>10, <1>11, <2>3 DEF Place, AfterHead
<1>13. CASE n # m
  <2>1. http_pc' = "chunk_data" /\ remaining' = m - n
    BY <1>1, <1>13
  <2>2. m - n \in 1..s - (d + n)
    BY <1>4, <1>6, <1>7, <1>13
  <2>3. InsideChunks'
    BY <1>2, <1>9, <1>11, <2>1, <2>2 DEF InsideChunks, Expects, s
  <2> QED
    BY <1>10, <1>11, <2>3 DEF Place, AfterHead
<1> QED
  BY <1>12, <1>13

LEMMA WaitFailsOnTrack ==
  ASSUME HttpTypes, Connection, WaitFails, ~late', ReadSoFar, Place
  PROVE  ReadSoFar' /\ Place'
<1>1. /\ http_pc \in {"body", "chunk_data"} /\ http_pc' = "idle" /\ inflow = <<>> /\ link # "up"
      /\ UNCHANGED <<inflow, script, link, cut, drained, answered, status>>
      /\ UNCHANGED <<content_length, chunked, location>>
  BY DEF WaitFails, Fetched, connection, http_head
<1>2. script = <<>> /\ inflow \o script = <<>>
  BY <1>1 DEF Connection
<1>3. ReadSoFar'
  BY <1>1 DEF ReadSoFar
<1>4. ASSUME cut PROVE NoMore'
  BY <1>1, <1>2, <1>4 DEF NoMore, NothingLeft
<1>5. CASE AfterHead
  <2>1. answered \in Responses /\ HasHead /\ Known /\ (InsideBody \/ InsideChunks)
    BY <1>1, <1>5 DEF AfterHead, BeforeBody
  <2>2. Len(drained) \in Nat /\ answered.size \in Nat /\ Len(drained) <= answered.size
    BY <2>1, ResponseIs DEF HttpTypes, LinesOK, ReadSoFar
  <2>3. CASE InsideBody
    <3>1. Part(<<>>, Bytes(Len(drained) + 1, answered.size), cut)
      BY <1>2, <2>3 DEF InsideBody, Expects
    <3>2. /\ Bytes(Len(drained) + 1, answered.size) \in Seq(Lines)
          /\ Len(Bytes(Len(drained) + 1, answered.size)) = answered.size - (Len(drained) + 1) + 1
      <4>1. Len(drained) + 1 \in Nat \ {0} /\ Len(drained) + 1 <= answered.size + 1
        BY <2>2
      <4> QED
        BY <2>2, <4>1, BytesAre, Zenon
    <3>3. cut \/ Len(Bytes(Len(drained) + 1, answered.size)) = 0
      <4> DEFINE e == Bytes(Len(drained) + 1, answered.size)
      <4>1. e \in Seq(Lines) /\ Part(<<>>, e, cut)
        BY <3>1, <3>2
      <4> HIDE DEF e
      <4>2. cut \/ Len(e) = 0
        BY <4>1, NoPartOf
      <4> QED
        BY <4>2 DEF e
    <3>4. ASSUME ~cut PROVE AllRead'
      <4>1. Len(drained) = answered.size
        BY <2>2, <3>2, <3>3, <3>4
      <4> QED
        BY <1>1, <1>2, <2>1, <4>1 DEF AllRead, NothingLeft, HasHead, Requesting
    <3> QED
      BY <1>3, <1>4, <3>4 DEF Place
  <2>4. CASE InsideChunks
    <3>1. remaining \in 1..answered.size - Len(drained)
          /\ Expects(FromData(answered, Len(drained), remaining)) /\ answered.framing = "chunks"
      BY <1>1, <2>1, <2>4 DEF InsideChunks, Known
    <3>2. /\ FromData(answered, Len(drained), remaining) \in Seq(Lines)
          /\ Len(FromData(answered, Len(drained), remaining)) >= remaining + 1
      <4>1. remaining \in Nat /\ Len(drained) + remaining <= answered.size
        BY <2>2, <3>1
      <4> QED
        BY <2>1, <2>2, <3>1, <4>1, FromDataIs, Zenon
    <3>3. Part(<<>>, FromData(answered, Len(drained), remaining), cut)
      BY <1>2, <3>1 DEF Expects
    <3>4. cut \/ Len(FromData(answered, Len(drained), remaining)) = 0
      <4> DEFINE e == FromData(answered, Len(drained), remaining)
      <4>1. e \in Seq(Lines) /\ Part(<<>>, e, cut)
        BY <3>2, <3>3
      <4> HIDE DEF e
      <4>2. cut \/ Len(e) = 0
        BY <4>1, NoPartOf
      <4> QED
        BY <4>2 DEF e
    <3>5. Len(FromData(answered, Len(drained), remaining)) # 0
      BY <3>1, <3>2
    <3> QED
      BY <1>3, <1>4, <3>4, <3>5 DEF Place
  <2> QED
    BY <2>1, <2>3, <2>4
<1>6. CASE AllRead
  <2>1. AllRead'
    BY <1>1, <1>6 DEF AllRead, NothingLeft, HasHead, Requesting
  <2> QED
    BY <1>3, <2>1 DEF Place
<1>7. CASE NoMore
  <2>1. NoMore'
    BY <1>1, <1>7 DEF NoMore, NothingLeft, Requesting
  <2> QED
    BY <1>3, <2>1 DEF Place
<1> QED
  BY <1>1, <1>5, <1>6, <1>7 DEF Place, InsideHead

LEMMA ReadChunkLineOnTrack ==
  ASSUME HttpTypes, Connection, ReadChunkLine, ~late', ReadSoFar, Place
  PROVE  ReadSoFar' /\ Place'
<1> DEFINE d == Len(drained)
           s == answered.size
           n == IF NextLine.kind = "size" THEN NextLine.n ELSE 0
<1>1. /\ http_pc \in {"chunk_size", "chunk_end", "trailers"} /\ TakesLine
      /\ UNCHANGED <<script, link, cut, drained, answered, status>>
      /\ UNCHANGED <<content_length, chunked, location>>
  BY DEF ReadChunkLine, http_head
<1>2. IF http_pc # "chunk_end" /\ NextLine = EmptyLine THEN http_pc' = "idle"
      ELSE /\ http_pc' = CASE http_pc = "chunk_end" -> "chunk_size"
                           [] http_pc = "chunk_size" /\ n > 0 -> "chunk_data"
                           [] OTHER -> "trailers"
           /\ remaining' = n
  BY DEF ReadChunkLine, Fetched
<1>3. ReadSoFar'
  BY <1>1 DEF ReadSoFar
<1>4. ASSUME Ended PROVE Place'
  BY <1>1, <1>4, EndedIsNoMore DEF Place
<1>5. CASE NoMore
  <2>1. ~Requesting'
    BY <1>1, <1>2 DEF Requesting
  <2>2. NoMore'
    BY <1>1, <1>5, <2>1, NoMoreStays
  <2> QED
    BY <1>3, <2>2 DEF Place
<1>6. CASE AllRead
  <2>1. inflow' = <<>> /\ NextLine = EmptyLine
    BY <1>1, <1>6, NothingTaken DEF AllRead, NothingLeft
  <2>2. ~Requesting'
    BY <1>1, <1>2 DEF Requesting
  <2>3. AllRead'
    BY <1>1, <1>6, <2>1, <2>2 DEF AllRead, NothingLeft, HasHead
  <2> QED
    BY <1>3, <2>3 DEF Place
<1>7. CASE AfterHead
  <2>1. /\ answered \in Responses /\ HasHead /\ Known /\ InsideChunks
        /\ chunked /\ answered.framing = "chunks"
    BY <1>1, <1>7 DEF AfterHead, BeforeBody, InsideBody, InsideChunks, Known
  <2>2. d \in Nat /\ s \in Nat /\ d <= s
    BY <2>1, ResponseIs DEF HttpTypes, LinesOK, ReadSoFar
  <2>3. HasHead' /\ Known' /\ answered' \in Responses /\ chunked'
    BY <1>1, <2>1 DEF HasHead, Known
  <2>4. EmptyLine \in Lines /\ EmptyLine.kind = "blank" /\ <<>> \in Seq(Lines)
        /\ <<EmptyLine>> \in Seq(Lines)
    BY EmptyLineIs
  <2>5. CASE http_pc = "chunk_end"
    <3>1. Expects(<<EmptyLine>> \o FromSize(answered, d)) /\ FromSize(answered, d) \in Seq(Lines)
      BY <2>1, <2>2, <2>5, FromSizeIs DEF InsideChunks, FromBreak
    <3>2. Ended \/ (NextLine = EmptyLine /\ Part(inflow' \o script, FromSize(answered, d), cut))
      BY <1>1, <2>4, <3>1, LineRead
    <3>3. http_pc' = "chunk_size"
      BY <1>2, <2>5
    <3>4. CASE Part(inflow' \o script, FromSize(answered, d), cut)
      <4>1. InsideChunks'
        BY <1>1, <2>3, <3>3, <3>4 DEF InsideChunks, Expects
      <4> QED
        BY <1>3, <2>3, <4>1 DEF Place, AfterHead
    <3> QED
      BY <1>3, <1>4, <3>2, <3>4
  <2>6. CASE http_pc = "trailers"
    <3>1. d = s /\ Expects(<<EmptyLine>>)
      BY <2>1, <2>6 DEF InsideChunks
    <3>2. Expects(<<EmptyLine>> \o <<>>)
      BY <2>4, <3>1, NoLines
    <3>3. Ended \/ (NextLine = EmptyLine /\ Part(inflow' \o script, <<>>, cut))
      BY <1>1, <2>4, <3>2, LineRead
    <3>4. CASE NextLine = EmptyLine /\ Part(inflow' \o script, <<>>, cut)
      <4>1. inflow' \in Seq(Lines) /\ script \in Seq(Lines)
        BY <1>1, AnyLine DEF HttpTypes, LinesOK, NamesOK
      <4>2. inflow' \o script = <<>>
        BY <3>4, PartOfNone
      <4>3. inflow' = <<>> /\ script = <<>>
        BY <4>1, <4>2, NothingJoined
      <4>4. http_pc' = "idle"
        BY <1>2, <2>6, <3>4
      <4>5. AllRead'
        BY <1>1, <2>3, <3>1, <4>3, <4>4 DEF AllRead, NothingLeft, Requesting
      <4> QED
        BY <1>3, <4>5 DEF Place
    <3> QED
      BY <1>3, <1>4, <3>3, <3>4
  <2>7. CASE http_pc = "chunk_size" /\ d = s
    <3> DEFINE x == Line("size", 0)
    <3>1. Expects(<<x>> \o <<EmptyLine>>)
      BY <2>1, <2>7, SizeLineLast DEF InsideChunks
    <3>2. x \in Lines /\ x.kind = "size" /\ x.n = 0
      BY LineIs DEF LineKinds
    <3> HIDE DEF x
    <3>3. Ended \/ (NextLine = x /\ Part(inflow' \o script, <<EmptyLine>>, cut))
      BY <1>1, <2>4, <3>1, <3>2, LineRead
    <3>4. CASE NextLine = x /\ Part(inflow' \o script, <<EmptyLine>>, cut)
      <4>1. NextLine # EmptyLine /\ n = 0
        BY <2>4, <3>2, <3>4
      <4>2. http_pc' = "trailers"
        BY <1>2, <2>7, <4>1
      <4>3. InsideChunks'
        BY <1>1, <2>3, <2>7, <3>4, <4>2 DEF InsideChunks, Expects
      <4> QED
        BY <1>3, <2>3, <4>3 DEF Place, AfterHead
    <3> QED
      BY <1>3, <1>4, <3>3, <3>4
  <2>8. CASE http_pc = "chunk_size" /\ d # s
    <3>1. d < s /\ Expects(FromSize(answered, d))
      BY <2>1, <2>2, <2>8 DEF InsideChunks
    <3>2. PICK m \in 1..s - d : FromSize(answered, d) = <<Line("size", m)>> \o FromData(answered, d, m)
      BY <2>1, <2>2, <3>1, SizeLineFirst, Zenon
    <3>3. m \in Nat \ {0} /\ m \in Nat /\ d + m <= s
      BY <2>2, <3>1
    <3> DEFINE x == Line("size", m)
    <3>4. x \in Lines /\ x.kind = "size" /\ x.n = m
      BY <3>3, LineIs DEF LineKinds
    <3>5. FromData(answered, d, m) \in Seq(Lines)
      BY <2>1, <2>2, <3>3, FromDataIs, Zenon
    <3>6. Expects(<<x>> \o FromData(answered, d, m))
      BY <3>1, <3>2
    <3> HIDE DEF x
    <3>7. Ended \/ (NextLine = x /\ Part(inflow' \o script, FromData(answered, d, m), cut))
      BY <1>1, <3>4, <3>5, <3>6, LineRead
    <3>8. CASE NextLine = x /\ Part(inflow' \o script, FromData(answered, d, m), cut)
      <4>1. NextLine # EmptyLine /\ n = m /\ n > 0
        BY <2>4, <3>3, <3>4, <3>8
      <4>2. http_pc' = "chunk_data" /\ remaining' = m
        BY <1>2, <2>8, <4>1
      <4>3. InsideChunks'
        BY <1>1, <2>3, <3>8, <4>2 DEF InsideChunks, Expects
      <4> QED
        BY <1>3, <2>3, <4>3 DEF Place, AfterHead
    <3> QED
      BY <1>3, <1>4, <3>7, <3>8
  <2> QED
    BY <1>1, <1>3, <2>5, <2>6, <2>7, <2>8
<1> QED
  BY <1>1, <1>5, <1>6, <1>7 DEF Place, InsideHead

(* What the server sends was to come, and what it never sends is cut.      *)
LEMMA ServerSendsOnTrack ==
  ASSUME HttpTypes, ServerSends, ReadSoFar, Place
  PROVE  ReadSoFar' /\ Place'
<1>1. /\ link = "up" /\ script # <<>> /\ inflow \in Seq(Lines) /\ script \in Seq(Lines)
      /\ inflow' = Append(inflow, Head(script)) /\ script' = Tail(script)
      /\ UNCHANGED <<link, cut, drained, answered, status, fetched, http_pc, remaining>>
      /\ UNCHANGED <<content_length, chunked, location>>
  BY DEF ServerSends, http_head, watched, HttpTypes, LinesOK
<1>2. inflow' \o script' = inflow \o script
  BY <1>1
<1>3. ASSUME NEW e, Expects(e) PROVE Part(inflow' \o script', e, cut')
  BY <1>1, <1>2, <1>3 DEF Expects
<1>4. ReadSoFar'
  BY <1>1 DEF ReadSoFar
<1>5. ~AllRead /\ ~NoMore
  BY <1>1 DEF AllRead, NoMore, NothingLeft
<1>6. CASE InsideHead
  BY <1>1, <1>3, <1>4, <1>6 DEF Place, InsideHead, Unknown, Known, Expects
<1>7. CASE AfterHead
  <2>1. answered' \in Responses /\ HasHead' /\ Known'
    BY <1>1, <1>7 DEF AfterHead, HasHead, Known
  <2>2. BeforeBody => BeforeBody'
    BY <1>1, <1>3 DEF BeforeBody, Expects
  <2>3. InsideBody => InsideBody'
    BY <1>1, <1>3 DEF InsideBody, Expects
  <2>4. InsideChunks => InsideChunks'
    BY <1>1, <1>3 DEF InsideChunks, Expects
  <2> QED
    BY <1>4, <1>7, <2>1, <2>2, <2>3, <2>4 DEF Place, AfterHead
<1>8. CASE http_pc \in {"connect", "write"}
  BY <1>1, <1>4, <1>8 DEF Place
<1> QED
  BY <1>5, <1>6, <1>7, <1>8 DEF Place

LEMMA ServerClosesOnTrack ==
  ASSUME HttpTypes, Connection, ServerCloses, ReadSoFar, Place
  PROVE  ReadSoFar' /\ Place'
<1>1. /\ link = "up" /\ link' = "ending" /\ inflow \in Seq(Lines) /\ script \in Seq(Lines)
      /\ script' = <<>> /\ inflow' \in {inflow, <<>>}
      /\ cut' = (cut \/ script # <<>> \/ inflow' # inflow)
      /\ UNCHANGED <<drained, answered, status, fetched, http_pc, remaining>>
      /\ UNCHANGED <<content_length, chunked, location>>
  BY DEF ServerCloses, http_head, HttpTypes, LinesOK
<1>2. ASSUME NEW e \in Seq(Lines), Expects(e) PROVE Part(inflow' \o script', e, cut')
  <2>1. CASE script = <<>> /\ inflow' = inflow
    <3>1. (cut' \/ ~cut) /\ (cut => cut')
      BY <1>1, <2>1
    <3>2. Part(inflow' \o script', e, cut)
      BY <1>1, <1>2, <2>1 DEF Expects
    <3> QED
      BY <3>1, <3>2 DEF Part
  <2>2. CASE script # <<>> /\ inflow' = inflow
    <3>1. Part(inflow, e, TRUE)
      BY <1>1, <1>2, PartCut DEF Expects
    <3>2. inflow' \o script' = inflow /\ cut'
      BY <1>1, <2>2, NoLines
    <3> QED
      BY <3>1, <3>2 DEF Part
  <2>3. CASE inflow' # inflow
    <3>1. inflow' \o script' = <<>> /\ cut'
      BY <1>1, <2>3, NoLines
    <3>2. Part(<<>>, e, TRUE)
      BY <1>2, NoPart
    <3> QED
      BY <3>1, <3>2 DEF Part
  <2> QED
    BY <2>1, <2>2, <2>3
<1>3. ReadSoFar'
  BY <1>1 DEF ReadSoFar
<1>4. CASE AllRead
  <2>1. AllRead'
    BY <1>1, <1>4 DEF AllRead, NothingLeft, HasHead, Requesting
  <2> QED
    BY <1>3, <2>1 DEF Place
<1>5. CASE InsideHead
  <2>1. /\ FromStatus(answered) \in Seq(Lines) /\ FromLocation(answered) \in Seq(Lines)
        /\ FromFraming(answered) \in Seq(Lines) /\ FromBlank(answered) \in Seq(Lines)
    BY <1>5, StagesAre DEF InsideHead
  <2> QED
    BY <1>1, <1>2, <1>3, <1>5, <2>1 DEF Place, InsideHead, Unknown, Known, Expects
<1>6. CASE AfterHead
  <2>1. answered \in Responses /\ answered' \in Responses /\ HasHead' /\ Known'
    BY <1>1, <1>6 DEF AfterHead, HasHead, Known
  <2>2. Len(drained) \in Nat /\ answered.size \in Nat /\ Len(drained) <= answered.size
        /\ (chunked => answered.framing = "chunks")
    <3>1. Len(drained) \in Nat /\ answered.size \in Nat
      BY <2>1, ResponseIs DEF HttpTypes, LinesOK
    <3>2. Len(drained) <= answered.size
      BY DEF ReadSoFar
    <3>3. chunked => answered.framing = "chunks"
      BY <1>6 DEF AfterHead, Known
    <3> QED
      BY <3>1, <3>2, <3>3
  <2>3. BeforeBody => BeforeBody'
    <3>1. Body(answered) \in Seq(Lines)
      BY <2>1, StagesAre
    <3> QED
      BY <1>1, <1>2, <3>1 DEF BeforeBody, Expects
  <2>4. InsideBody => InsideBody'
    <3>1. Bytes(Len(drained) + 1, answered.size) \in Seq(Lines)
      <4>1. Len(drained) + 1 \in Nat \ {0} /\ Len(drained) + 1 <= answered.size + 1
        BY <2>2
      <4> QED
        BY <2>2, <4>1, BytesAre, Zenon
    <3> QED
      BY <1>1, <1>2, <3>1 DEF InsideBody, Expects
  <2>5. InsideChunks => InsideChunks'
    <3> SUFFICES ASSUME InsideChunks PROVE InsideChunks'
      OBVIOUS
    <3>1. answered.framing = "chunks"
      BY <2>2 DEF InsideChunks
    <3>2. /\ FromSize(answered, Len(drained)) \in Seq(Lines)
          /\ FromBreak(answered, Len(drained)) \in Seq(Lines)
      BY <2>1, <2>2, <3>1, FromSizeIs
    <3>3. ASSUME remaining \in 1..answered.size - Len(drained)
          PROVE  FromData(answered, Len(drained), remaining) \in Seq(Lines)
      <4>1. remaining \in Nat /\ Len(drained) + remaining <= answered.size
        BY <2>2, <3>3
      <4> QED
        BY <2>1, <2>2, <3>1, <4>1, FromDataIs, Zenon
    <3>4. <<EmptyLine>> \in Seq(Lines)
      BY EmptyLineIs
    <3> QED
      BY <1>1, <1>2, <3>2, <3>3, <3>4 DEF InsideChunks, Expects
  <2> QED
    BY <1>3, <1>6, <2>1, <2>3, <2>4, <2>5 DEF Place, AfterHead
<1>7. CASE http_pc \in {"connect", "write"}
  BY <1>1, <1>3, <1>7 DEF Place
<1>8. ~NoMore
  BY <1>1 DEF NoMore
<1> QED
  BY <1>4, <1>5, <1>6, <1>7, <1>8 DEF Place

(* What concerns neither the connection nor the response.                  *)
LEMMA StillOnTrack ==
  ASSUME ReadSoFar, Place,
         UNCHANGED <<link, inflow, script, cut, drained, answered, status, fetched, http_pc, remaining>>,
         UNCHANGED <<content_length, chunked, location>>
  PROVE  ReadSoFar' /\ Place'
<1>1. ReadSoFar'
  BY DEF ReadSoFar
<1>2. InsideHead => InsideHead'
  BY DEF InsideHead, Unknown, Known, Expects
<1>3. AfterHead => AfterHead'
  BY DEF AfterHead, HasHead, Known, BeforeBody, InsideBody, InsideChunks, Expects
<1>4. AllRead => AllRead'
  BY DEF AllRead, NothingLeft, HasHead, Requesting
<1>5. NoMore => NoMore'
  BY DEF NoMore, NothingLeft, Requesting
<1> QED
  BY <1>1, <1>2, <1>3, <1>4, <1>5 DEF Place

LEMMA HttpInvKept ==
  ASSUME HttpInv, [HttpNext]_http_vars
  PROVE  HttpInv'
<1>1. HttpTypes /\ Connection /\ Hops /\ OnTrack
  BY DEF HttpInv
<1>2. HttpTypes' /\ Connection' /\ Hops'
  BY <1>1, TypesKept
<1> SUFFICES ASSUME carried' = 1, ~late' PROVE ReadSoFar' /\ Place'
  BY <1>2 DEF HttpInv, OnTrack
<1>3. ASSUME carried' = carried, late => late' PROVE ReadSoFar /\ Place
  BY <1>1, <1>3 DEF OnTrack
<1>4. ASSUME TakesLine PROVE late => late'
  BY <1>1, <1>4, AnyLine DEF HttpTypes, LinesOK, NamesOK
<1>5. ASSUME NEW kind, HttpBegin(kind) PROVE FALSE
  BY <1>5 DEF HttpBegin, Disconnects
<1>6. CASE Redirect
  BY <1>6 DEF Redirect, LeavesHop, Disconnects
<1>7. ASSUME NEW v, SendRequest(v) PROVE ReadSoFar' /\ Place'
  <2>1. http_pc' = "connect" /\ drained' = <<>> /\ answered'.size = 0
    BY <1>7 DEF SendRequest, Forgets, NoResponse
  <2> QED
    BY <2>1, NothingDrained DEF ReadSoFar, Place
<1>8. CASE SendOnce \/ WriteFails \/ WriteEnds
  BY <1>1, <1>8, SendOnceOnTrack, WriteFailsOnTrack, WriteEndsOnTrack
<1>9. CASE ReadStatus
  <2>1. carried' = carried /\ TakesLine
    BY <1>9 DEF ReadStatus
  <2> QED
    BY <1>1, <1>3, <1>4, <1>9, <2>1, ReadStatusOnTrack
<1>10. CASE ReadHeader
  <2>1. carried' = carried /\ TakesLine
    BY <1>10 DEF ReadHeader
  <2> QED
    BY <1>1, <1>3, <1>4, <1>10, <2>1, ReadHeaderOnTrack
<1>11. CASE HeadIsRead
  <2>1. carried' = carried /\ late' = late
    BY <1>11 DEF HeadIsRead, connection, watched
  <2> QED
    BY <1>3, <1>11, <2>1, HeadIsReadOnTrack
<1>12. CASE GetString
  <2>1. carried' = carried /\ late' = late
    BY <1>12 DEF GetString, connection
  <2> QED
    BY <1>1, <1>3, <1>12, <2>1, GetStringOnTrack
<1>13. CASE ReadBody
  <2>1. carried' = carried /\ late' = late
    BY <1>13 DEF ReadBody
  <2> QED
    BY <1>1, <1>3, <1>13, <2>1, ReadBodyOnTrack
<1>14. CASE ReadChunk
  <2>1. carried' = carried /\ late' = late
    BY <1>14 DEF ReadChunk
  <2> QED
    BY <1>1, <1>3, <1>14, <2>1, ReadChunkOnTrack
<1>15. CASE WaitFails
  <2>1. carried' = carried /\ (late => late')
    BY <1>15 DEF WaitFails, connection
  <2> QED
    BY <1>1, <1>3, <1>15, <2>1, WaitFailsOnTrack
<1>16. CASE ReadChunkLine
  <2>1. carried' = carried /\ TakesLine
    BY <1>16 DEF ReadChunkLine
  <2> QED
    BY <1>1, <1>3, <1>4, <1>16, <2>1, ReadChunkLineOnTrack
<1>17. CASE ServerSends
  <2>1. carried' = carried /\ late' = late
    BY <1>17 DEF ServerSends, watched
  <2> QED
    BY <1>1, <1>3, <1>17, <2>1, ServerSendsOnTrack
<1>18. CASE ServerCloses
  <2>1. carried' = carried /\ late' = late
    BY <1>18 DEF ServerCloses
  <2> QED
    BY <1>1, <1>3, <1>18, <2>1, ServerClosesOnTrack
<1>19. ASSUME UNCHANGED <<connection, http_head, http_pc, status, remaining, watched>>
       PROVE  ReadSoFar' /\ Place'
  <2>1. carried' = carried /\ late' = late
    BY <1>19 DEF connection, watched
  <2>2. /\ UNCHANGED <<link, inflow, script, cut, drained, answered, status, fetched, http_pc, remaining>>
        /\ UNCHANGED <<content_length, chunked, location>>
    BY <1>19 DEF connection, http_head, watched
  <2> QED
    BY <1>3, <2>1, <2>2, StillOnTrack
<1>20. ASSUME NEW mode, SetFollowRedirects(mode) PROVE ReadSoFar' /\ Place'
  BY <1>19, <1>20 DEF SetFollowRedirects
<1>21. CASE AddHeader \/ UNCHANGED http_vars
  BY <1>19, <1>21 DEF AddHeader, http_vars
<1> QED
  BY <1>5, <1>6, <1>7, <1>8, <1>9, <1>10, <1>11, <1>12, <1>13, <1>14, <1>15, <1>16, <1>17, <1>18,
     <1>20, <1>21 DEF HttpNext, HttpSteps

(* A request on a connection of its own is answered by its own response,   *)
(* with its code, its location and its body, for every server and every    *)
(* body, chunk and buffer; redirects end within the limit, repeat a POST   *)
(* only when told to and leave the user's headers behind                   *)
(* (HTTPClient.h:13-14, 176-222, 297-298).                                 *)
THEOREM OwnAnswer == ServicesSpec => []HttpOwnAnswer
<1>1. ServicesInit => HttpInv
  BY HttpInvInit DEF ServicesInit
<1>2. HttpInv /\ [ServicesNext]_services_vars => HttpInv'
  BY HttpStep, HttpInvKept
<1>3. HttpInv => HttpOwnAnswer
  BY OwnAnswerHolds
<1> QED
  BY <1>1, <1>2, <1>3, PTL DEF ServicesSpec
=================================================================================
