------------------------------ MODULE Preferences ------------------------------
(***************************************************************************)
(* Preferences handles over the one store of the process.                  *)
(*                                                                         *)
(* Each handle is used by one thread, so a call is one step: what it does  *)
(* to the store it does under store_mutex.  A call on a handle that is not *)
(* started, and a put on one that is read-only, does nothing.  A scalar is *)
(* a member of Values, a float one that stands for its bits; a string or a *)
(* blob is known by its length.                                            *)
(***************************************************************************)
EXTENDS Integers, Sequences

CONSTANTS
  PrefHandles,   (* the handles                                            *)
  Namespaces,    (* the names given to begin                               *)
  NoName,        (* ns_ when it is empty                                   *)
  Keys,          (* the keys                                               *)
  Kinds,         (* the kinds used, of the DOMAIN of TypeOf                *)
  Values,        (* scalars, lengths, and room given to a get              *)
  Nowhere,       (* no entry, no answer, no session                        *)
  MaxWrites      (* bound: calls that change the store                     *)

ASSUME PrefAssumption ==
  /\ NoName \notin Namespaces /\ Values \subseteq Nat /\ MaxWrites \in Nat
  /\ Nowhere \notin Nat /\ Nowhere \notin [ns : Namespaces, read_only : BOOLEAN]

VARIABLES
  store,         (* entries of each namespace                              *)
  prefs,         (* ns_, started_ and read_only_ of each handle            *)
  written,       (* the calls that changed the store, as the sketch made   *)
                 (* them                                                   *)
  session        (* the namespace the sketch has asked each handle for,    *)
                 (* and how                                                *)

pref_vars == <<store, prefs, written, session>>

(* The type each put stores under and each get asks for.                   *)
TypeOf ==
  [Char |-> "I8", UChar |-> "U8", Bool |-> "U8", Short |-> "I16", UShort |-> "U16",
   Int |-> "I32", Long |-> "I32", UInt |-> "U32", ULong |-> "U32", Float |-> "U32",
   Long64 |-> "I64", ULong64 |-> "U64", Double |-> "U64", String |-> "STR", Bytes |-> "BLOB"]

Types == {TypeOf[k] : k \in DOMAIN TypeOf}
Entries == [type : Types, value : Values \cup {0, 1}] \cup {Nowhere}
Puts == [kind : Kinds \cup {"String", "Bytes"}, value : Values] \cup {Nowhere}

ASSUME EntryAssumption ==
  /\ Kinds \subseteq DOMAIN TypeOf
  /\ Nowhere \notin [type : Types, value : Values \cup {0, 1}]
  /\ Nowhere \notin [kind : Kinds \cup {"String", "Bytes"}, value : Values]

PrefInit ==
  /\ store = [ns \in Namespaces |-> [k \in Keys |-> Nowhere]]
  /\ prefs = [h \in PrefHandles |-> [ns |-> NoName, started |-> FALSE, read_only |-> FALSE]]
  /\ written = <<>>
  /\ session = [h \in PrefHandles |-> Nowhere]
------------------------------------------------------------------------------
(* begin needs no end() before it; one without a name changes nothing.     *)
PrefBegin(h, ns, read_only) ==
  /\ prefs' = [prefs EXCEPT ![h] = [ns |-> ns, started |-> TRUE, read_only |-> read_only]]
  /\ session' = [session EXCEPT ![h] = [ns |-> ns, read_only |-> read_only]]
  /\ UNCHANGED <<store, written>>

(* end() leaves read_only_ as it is.                                       *)
PrefEnd(h) ==
  /\ prefs' = [prefs EXCEPT ![h].started = FALSE, ![h].ns = NoName]
  /\ session' = [session EXCEPT ![h] = Nowhere]
  /\ UNCHANGED <<store, written>>

MutantReadyToWrite(h) == prefs[h].started
ReadyToWrite(h) == prefs[h].started /\ ~prefs[h].read_only

(* What a bool is as a number, and a number as a bool.                     *)
Truth(v) == IF v = 0 THEN 0 ELSE 1

(* A change of the store, and the call that made it: a put, or Nowhere for *)
(* a clear or a remove.                                                    *)
Writes(h, ks, entry, put) ==
  LET ns == prefs[h].ns IN
  /\ ReadyToWrite(h) /\ Len(written) < MaxWrites
  /\ store' = [store EXCEPT ![ns] = [k \in Keys |-> IF k \in ks THEN entry ELSE @[k]]]
  /\ written' = Append(written, [by |-> session[h], keys |-> ks, put |-> put])
  /\ UNCHANGED <<prefs, session>>

(* The entry a put makes; putBool turns what it is given into 0 or 1.      *)
Packed(kind, v) ==
  [type |-> TypeOf[kind], value |-> IF kind = "Bool" THEN Truth(v) ELSE v]

PutScalar(h, k, kind, v) == Writes(h, {k}, Packed(kind, v), [kind |-> kind, value |-> v])
PutString(h, k, n) == PutScalar(h, k, "String", n)
PutBytes(h, k, n) == PutScalar(h, k, "Bytes", n)
PrefClear(h) == Writes(h, Keys, Nowhere, Nowhere)
PrefRemove(h, k) == Writes(h, {k}, Nowhere, Nowhere)

Lesser(a, b) == IF a <= b THEN a ELSE b

(* What a get answers: the value, as much of it as there is room for, or   *)
(* nothing, for the default, unless the type is the one stored.  getString *)
(* needs room for its terminator.                                          *)
PrefGet(h, k, kind, space) ==
  LET entry == store[prefs[h].ns][k] IN
  IF ~prefs[h].started \/ entry = Nowhere THEN Nowhere
  ELSE IF entry.type # TypeOf[kind] THEN Nowhere
  ELSE CASE kind = "Bytes" -> Lesser(entry.value, space)
         [] kind = "String" -> IF space = 0 THEN 0 ELSE Lesser(entry.value, space - 1)
         [] kind = "Bool" -> Truth(entry.value)
         [] OTHER -> entry.value

PrefNext ==
  \E h \in PrefHandles :
    \/ \E ns \in Namespaces, read_only \in BOOLEAN : PrefBegin(h, ns, read_only)
    \/ PrefEnd(h)
    \/ \E k \in Keys, kind \in Kinds \ {"String", "Bytes"}, v \in Values : PutScalar(h, k, kind, v)
    \/ \E k \in Keys, n \in Values : PutString(h, k, n) \/ PutBytes(h, k, n)
    \/ PrefClear(h)
    \/ \E k \in Keys : PrefRemove(h, k)

PrefSpec == PrefInit /\ [][PrefNext]_pref_vars
------------------------------------------------------------------------------
(* Every variable of the store and its handles has its type.               *)
PrefTypeOK ==
  /\ store \in [Namespaces -> [Keys -> Entries]]
  /\ prefs \in [PrefHandles -> [ns : Namespaces \cup {NoName}, started : BOOLEAN,
                                read_only : BOOLEAN]]
  /\ session \in [PrefHandles -> [ns : Namespaces, read_only : BOOLEAN] \cup {Nowhere}]
  /\ written \in Seq([by : [ns : Namespaces, read_only : BOOLEAN] \cup {Nowhere},
                      keys : SUBSET Keys, put : Puts])

(* The writes a sketch has made to a key of a namespace, and the last of   *)
(* them: a put, or Nowhere.                                                *)
WritesTo(ns, k) ==
  {i \in 1..Len(written) : written[i].by # Nowhere /\ written[i].by.ns = ns /\ k \in written[i].keys}
LastWritten(ns, k) ==
  IF WritesTo(ns, k) = {} THEN Nowhere
  ELSE written[CHOOSE i \in WritesTo(ns, k) : \A j \in WritesTo(ns, k) : j <= i].put
LastPut(h, k) == IF session[h] = Nowhere THEN Nowhere ELSE LastWritten(session[h].ns, k)

(* The kinds that have one type tag between them: a number put as one is   *)
(* answered by a get of the other.                                         *)
Lumped ==
  {{"Bool", "UChar"}, {"Int", "Long"}, {"UInt", "ULong", "Float"}, {"ULong64", "Double"}}

(* Whoever gets a key by the kind it was last put by, whichever handle put *)
(* it, in the namespace he asked for, finds what was put - a bool as 0 or  *)
(* 1, a string or blob cut to the room there is - and the default when it  *)
(* was never put, was removed or was put by another kind, or when he has   *)
(* ended; and no write comes from a handle that was opened read-only or    *)
(* not at all (Preferences.h:5-8, README.md:122).  The kinds of Lumped are *)
(* left out: what they do is PrefsOtherKindDefaults.                       *)
PrefsLastWriteWins ==
  /\ \A i \in 1..Len(written) : written[i].by # Nowhere /\ ~written[i].by.read_only
  /\ \A h \in PrefHandles : \A k \in Keys : \A kind \in Kinds : \A space \in Values :
       LET put == LastPut(h, k)
           answer == PrefGet(h, k, kind, space)
       IN IF put = Nowhere THEN answer = Nowhere
          ELSE IF kind # put.kind
          THEN (\E kinds \in Lumped : {kind, put.kind} \subseteq kinds) \/ answer = Nowhere
          ELSE CASE kind \in {"String", "Bytes"} ->
                      /\ answer \in Nat /\ answer <= space /\ answer <= put.value
                      /\ put.value < space => answer = put.value
                 [] kind = "Bool" -> answer = Truth(put.value)
                 [] OTHER -> answer = put.value

(* A key that holds a value of another kind answers with the default: a    *)
(* key stored with a different type returns the supplied default           *)
(* (README.md:122).                                                        *)
PrefsOtherKindDefaults ==
  \A h \in PrefHandles : \A k \in Keys : \A kind \in Kinds : \A space \in Values :
    LET put == LastPut(h, k) IN
    put # Nowhere /\ put.kind # kind => PrefGet(h, k, kind, space) = Nowhere
================================================================================
