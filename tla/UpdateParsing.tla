----------------------------- MODULE UpdateParsing -----------------------------
(***************************************************************************)
(* process_update up to its first co_await, with the chains of optional    *)
(* values of util::json it is written in: which updates begin a dialog,    *)
(* which are a command, and what is cut out of the text for one.           *)
(*                                                                         *)
(* A JSON value is a record with one field named after what it is; objects *)
(* are functions from names.  An optional is a set of at most one element. *)
(*                                                                         *)
(* The bot API counts offset and length of an entity in UTF-16 units, the  *)
(* text is a string of UTF-8 bytes.  A subview is the set of the positions *)
(* of its bytes in the text.                                               *)
(***************************************************************************)
EXTENDS Integers, Sequences, FiniteSets

CONSTANTS
  MaxBytes,     \* bound: length of a text
  MaxEntities,  \* bound: entities of a message
  MaxNumber,    \* bound: offsets and lengths
  Word,         \* size_t counts modulo Word
  None

ASSUME UpdateParsingAssumption ==
  /\ MaxBytes \in Nat /\ MaxEntities \in Nat /\ MaxNumber \in Nat /\ Word \in Nat
  /\ 2 * MaxNumber < Word /\ 2 * MaxBytes < Word

VARIABLES update, outcome

vars == <<update, outcome>>

Other == [other |-> None]

Object(members) ==
  [object |-> [k \in {j \in DOMAIN members : members[j] # None} |-> members[k]]]

(* Bytes of UTF-8: the first of a character, by how many follow, and those *)
(* that follow.                                                            *)
Follow == [ascii |-> 0, lead2 |-> 1, lead3 |-> 2, lead4 |-> 3]

Bytes == DOMAIN Follow \cup {"cont"}

(* boost::json::parse takes no other strings. *)
WellFormed(text) ==
  \A p \in DOMAIN text :
    /\ text[p] # "cont" => p + Follow[text[p]] <= Len(text)
    /\ text[p] = "cont" <=>
         \E q \in 1..(p - 1) : text[q] # "cont" /\ p <= q + Follow[text[q]]

UpTo(S, n) == UNION {[1..k -> S] : k \in 0..n}

Texts == {text \in UpTo(Bytes, MaxBytes) : WellFormed(text)}

Numbers == [int64: -1..MaxNumber]

Strings(S) == [string: S]

(* Each member is missing or of another type in some of the messages. *)
Entities ==
  {Other} \cup
  {Object(e) : e \in [type: {None} \cup Strings({"bold", "bot_command"}),
                      offset: {None} \cup Numbers, length: {Other} \cup Numbers]}

Messages ==
  {Object(m) : m \in [text: {None, Other} \cup Strings(Texts),
                      from: {Other} \cup {Object(f) : f \in [id: {None} \cup [int64: {7}]]},
                      entities: {None, Other} \cup [array: UpTo(Entities, MaxEntities)]]}

-----------------------------------------------------------------------------
(* util::json *)

IfContains(object, key) == IF key \in DOMAIN object THEN {object[key]} ELSE {}

If(type, value) == IF type \in DOMAIN value THEN {value[type]} ELSE {}

(* if_contains(object, key).and_then(if_<type>) *)
Member(object, key, type) == UNION {If(type, v) : v \in IfContains(object, key)}

-----------------------------------------------------------------------------
(* Mutated: only the first entity is looked at. *)
ObjectsHead(array) == {i \in DOMAIN array : i = 1 /\ If("object", array[i]) # {}}

(* Where the entities are objects. *)
Objects(array) == {i \in DOMAIN array : If("object", array[i]) # {}}

IsCommand(entity) == Member(entity, "type", "string") = {"bot_command"}

(* std::ranges::find: the first of type bot_command, if there is one. *)
Commands(array) ==
  LET found == {i \in Objects(array) : IsCommand(array[i].object)} IN
    {array[i].object : i \in {j \in found : \A k \in found : j <= k}}

(* boost::json::string::subview of int64 arguments: none if it throws. *)
Subview(text, offset, length) ==
  LET pos == offset % Word
      rest == Len(text) - pos
      count == IF length % Word < rest THEN length % Word ELSE rest IN
    IF pos > Len(text) THEN {} ELSE {(pos + 1)..(pos + count)}

(* Mutated: offsets are taken to begin at 1. *)
CutShifted(text, offset, length) == Subview(text, offset - 1, length)

(* Mutated: the arguments trade places. *)
CutSwapped(text, offset, length) == Subview(text, length, offset)

Cut(text, offset, length) == Subview(text, offset, length)

(* std::optional::value throws if there is none. *)
CommandText(text, command) ==
  UNION {Cut(text, n[1], n[2]) :
           n \in Member(command, "offset", "int64") \X Member(command, "length", "int64")}

Outcome(kind, user, command) == [kind |-> kind, user |-> user, command |-> command]

Ignored == Outcome("ignored", None, {})

TextMessage(message, text, user) ==
  LET commands == UNION {Commands(a) : a \in Member(message, "entities", "array")} IN
    IF commands = {} THEN Outcome("text", user, {})
    ELSE LET cut == CommandText(text, CHOOSE c \in commands : TRUE) IN
           IF cut = {} THEN Outcome("broken", user, {})
           ELSE Outcome("command", user, CHOOSE c \in cut : TRUE)

MessageUpdate(message) ==
  LET texts == Member(message, "text", "string")
      users == UNION {Member(from, "id", "int64") : from \in Member(message, "from", "object")} IN
    IF texts = {} \/ users = {} THEN Ignored
    ELSE TextMessage(message, CHOOSE t \in texts : TRUE, CHOOSE u \in users : TRUE)

Processed(object) ==
  LET messages == Member(object, "message", "object") IN
    IF messages = {} THEN Ignored ELSE MessageUpdate(CHOOSE m \in messages : TRUE)

Init ==
  /\ update \in {Object([message |-> m]).object : m \in {None, Other} \cup Messages}
  /\ outcome = Outcome("none", None, {})

ProcessUpdate ==
  /\ outcome.kind = "none"
  /\ outcome' = Processed(update)
  /\ UNCHANGED update

Next == ProcessUpdate

Spec == Init /\ [][Next]_vars

-----------------------------------------------------------------------------
(* Reference definitions, from the update itself. *)

Message == update.message.object

Text == Message.text.string

IsA(object, key, type) == key \in DOMAIN object /\ type \in DOMAIN object[key]

Array == IF IsA(Message, "entities", "array") THEN Message.entities.array ELSE <<>>

CommandEntity(e) ==
  /\ "object" \in DOMAIN e
  /\ IsA(e.object, "type", "string") /\ e.object.type.string = "bot_command"

Number(e, key) == IsA(e.object, key, "int64")

(* Where the UTF-16 units of the text begin; a surrogate pair stands for   *)
(* four bytes, its second half for the last three of them.                 *)
Units ==
  {p \in DOMAIN Text : Text[p] # "cont" \/ (p > 1 /\ Text[p - 1] = "lead4")}

UnitsBefore(p) == Cardinality({q \in Units : q < p})

(* The entity lies in the text, as the bot API counts. *)
InText(e) ==
  /\ Number(e, "offset") /\ Number(e, "length")
  /\ LET offset == e.object.offset.int64
         length == e.object.length.int64 IN
       /\ 0 <= offset /\ 0 <= length
       /\ offset + length <= Cardinality(Units)

(* The first of the entities that say `command'. *)
FirstCommand(i) ==
  CommandEntity(Array[i]) /\ \A j \in 1..(i - 1) : ~CommandEntity(Array[j])

(* The update is a text a user sent. *)
TextOfUser ==
  /\ IsA(update, "message", "object")
  /\ IsA(Message, "text", "string")
  /\ IsA(Message, "from", "object") /\ IsA(Message.from.object, "id", "int64")

(* An update is taken for a command exactly if it is a text of a user one  *)
(* of whose entities says so, whatever entities come before that one and   *)
(* whatever else they are, and for a plain text exactly if none does; it   *)
(* is left alone exactly if it is no text of a user.  The dialog is with   *)
(* the user the message is from.                                           *)
CommandFound ==
  outcome.kind # "none" =>
    /\ outcome.kind = "ignored" <=> ~TextOfUser
    /\ TextOfUser =>
         /\ outcome.kind \in {"command", "broken"} <=>
              \E i \in DOMAIN Array : CommandEntity(Array[i])
         /\ outcome.user = Message.from.object.id.int64

(* Units are mistaken for bytes, but no text has more units than bytes: a  *)
(* command whose entity lies in the text never leads out of it, so no      *)
(* dialog ends over it, whatever the entities behind that one are.         *)
SoundEntityAnswered ==
  outcome.kind = "broken" =>
    \E i \in DOMAIN Array : FirstCommand(i) /\ ~InText(Array[i])

(* Where the units begin that the entity names. *)
Named(e) ==
  {p \in Units : /\ e.object.offset.int64 <= UnitsBefore(p)
                 /\ UnitsBefore(p) < e.object.offset.int64 + e.object.length.int64}

(* The first n units of the text are all ASCII. *)
AsciiUpTo(n) == \A p \in Units : UnitsBefore(p) < n => Text[p] = "ascii"

(* What is cut out is what the first command entity names, as long as all  *)
(* of the text up to there is ASCII; behind a wider character it is not.   *)
CommandIsNamed ==
  outcome.kind = "command" =>
    \A i \in DOMAIN Array :
      LET e == Array[i] IN
        (/\ FirstCommand(i) /\ InText(e)
         /\ AsciiUpTo(e.object.offset.int64 + e.object.length.int64))
          => outcome.command = Named(e)
===============================================================================
