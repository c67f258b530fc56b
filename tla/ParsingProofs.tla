----------------------------- MODULE ParsingProofs -----------------------------
(***************************************************************************)
(* What process_update takes for a command, and what it cuts out for one,  *)
(* for lists of entities and texts of any length.                          *)
(*                                                                         *)
(* An update does not change, so everything follows from the one step that *)
(* looks at it: Inv says what the updates are made of and that an outcome  *)
(* is that of the update.  The chains of optional values are reduced to    *)
(* whether a member is there (MemberIs), the search to the least place of  *)
(* an entity (CommandsAre, Least); that units are at most as many as bytes *)
(* (UnitsFit) and the same where all is ASCII (AsciiPrefix) is counting.   *)
(***************************************************************************)
EXTENDS UpdateParsing, FiniteSetTheorems, WellFoundedInduction, TLAPS

LEMMA Least ==
  ASSUME NEW T \in SUBSET Nat, T # {}
  PROVE  \E m \in T : \A k \in T : m <= k
<1> DEFINE R == OpToRel(<, Nat)
<1>1. IsWellFoundedOn(R, Nat)
  BY NatLessThanWellFounded
<1>2. PICK m \in T : \A k \in T : ~(<<k, m>> \in R)
  <2> HIDE DEF R
  <2> QED BY <1>1, WFMin
<1>3. \A k \in T : ~(k < m)
  BY <1>2 DEF OpToRel
<1> QED BY <1>3

LEMMA MemberIs ==
  ASSUME NEW object, NEW key, NEW type
  PROVE  Member(object, key, type) =
           IF IsA(object, key, type) THEN {object[key][type]} ELSE {}
BY DEF Member, IfContains, If, IsA

-----------------------------------------------------------------------------
(* What Init gives the updates: texts are well formed, lists of entities   *)
(* have a first and a last, numbers are integers.                          *)

HasMessage == IsA(update, "message", "object")

TextShape == IsA(Message, "text", "string") => Text \in Texts

ArrayShape ==
  IsA(Message, "entities", "array") =>
    \E n \in Nat : Message.entities.array \in [1..n -> Entities]

Shape == HasMessage => TextShape /\ ArrayShape

LEMMA ObjectMember ==
  ASSUME NEW members, NEW key, key \in DOMAIN Object(members).object
  PROVE  key \in DOMAIN members /\ Object(members).object[key] = members[key]
BY DEF Object

LEMMA InitShape == Init => Shape
<1> SUFFICES ASSUME Init, HasMessage PROVE TextShape /\ ArrayShape
  BY DEF Shape
<1>1. PICK m \in {None, Other} \cup Messages : update = Object([message |-> m]).object
  BY DEF Init
<1>2. update.message = m /\ "object" \in DOMAIN m
  <2>1. "message" \in DOMAIN update /\ "object" \in DOMAIN update.message
    BY DEF HasMessage, IsA
  <2>2. update.message = [message |-> m].message
    BY <1>1, <2>1, ObjectMember
  <2> QED BY <2>1, <2>2
<1>3. m # None
  BY <1>1, <1>2 DEF Object, HasMessage, IsA
<1>4. m # Other
  BY <1>2 DEF Other
<1>5. PICK f \in [text: {None, Other} \cup Strings(Texts),
                 from: {Other} \cup {Object(g) : g \in [id: {None} \cup [int64: {7}]]},
                 entities: {None, Other} \cup [array: UpTo(Entities, MaxEntities)]] :
        m = Object(f)
  BY <1>1, <1>3, <1>4 DEF Messages
<1>6. Message = Object(f).object
  BY <1>2, <1>5 DEF Message
<1>7. TextShape
  <2> SUFFICES ASSUME IsA(Message, "text", "string") PROVE Text \in Texts
    BY DEF TextShape
  <2>1. Message.text = f.text /\ "string" \in DOMAIN f.text
    BY <1>6, ObjectMember DEF IsA
  <2>2. f.text # None
    BY <1>6 DEF Object, IsA
  <2>3. f.text # Other
    BY <2>1 DEF Other
  <2>4. f.text \in Strings(Texts)
    BY <1>5, <2>2, <2>3
  <2> QED BY <2>1, <2>4 DEF Strings, Text
<1>8. ArrayShape
  <2> SUFFICES ASSUME IsA(Message, "entities", "array")
               PROVE  \E n \in Nat : Message.entities.array \in [1..n -> Entities]
    BY DEF ArrayShape
  <2>1. Message.entities = f.entities /\ "array" \in DOMAIN f.entities
    BY <1>6, ObjectMember DEF IsA
  <2>2. f.entities # None
    BY <1>6 DEF Object, IsA
  <2>3. f.entities # Other
    BY <2>1 DEF Other
  <2>4. f.entities \in [array: UpTo(Entities, MaxEntities)]
    BY <1>5, <2>2, <2>3
  <2>5. f.entities.array \in UpTo(Entities, MaxEntities)
    BY <2>4
  <2>6. PICK n \in 0..MaxEntities : f.entities.array \in [1..n -> Entities]
    BY <2>5 DEF UpTo
  <2>7. n \in Nat
    BY UpdateParsingAssumption
  <2> QED BY <2>1, <2>6, <2>7
<1> QED BY <1>7, <1>8

(* The outcome is that of the update, or not there yet. *)
Inv == Shape /\ (outcome.kind = "none" \/ outcome = Processed(update))

LEMMA Invariance == Spec => []Inv
<1>1. Init => Inv
  <2>1. Init => outcome = Outcome("none", None, {})
    BY DEF Init
  <2>2. Init => outcome.kind = "none"
    BY <2>1 DEF Outcome
  <2> QED BY <2>2, InitShape DEF Inv
<1>2. Inv /\ [Next]_vars => Inv'
  <2> SUFFICES ASSUME Inv, [Next]_vars PROVE Inv'
    OBVIOUS
  <2>1. update' = update
    BY DEF Next, ProcessUpdate, vars
  <2>2. Shape' = Shape
    BY <2>1 DEF Shape, HasMessage, TextShape, ArrayShape, Message, Text
  <2>3. outcome' = outcome \/ outcome' = Processed(update)
    BY DEF Next, ProcessUpdate, vars
  <2> QED BY <2>1, <2>2, <2>3 DEF Inv
<1> QED BY <1>1, <1>2, PTL DEF Spec

-----------------------------------------------------------------------------
(* The list of entities. *)

LEMMA CommandEntityIs ==
  ASSUME NEW array, NEW i \in DOMAIN array
  PROVE  CommandEntity(array[i]) <=> i \in Objects(array) /\ IsCommand(array[i].object)
<1>1. i \in Objects(array) <=> "object" \in DOMAIN array[i]
  BY DEF Objects, If
<1>2. IsCommand(array[i].object) <=>
        /\ IsA(array[i].object, "type", "string")
        /\ array[i].object.type.string = "bot_command"
  BY MemberIs DEF IsCommand
<1> QED BY <1>1, <1>2 DEF CommandEntity

(* The command is the first of the command entities. *)
LEMMA CommandsAre ==
  ASSUME NEW n \in Nat, NEW S, NEW array \in [1..n -> S]
  PROVE  \/ /\ Commands(array) = {}
            /\ \A i \in DOMAIN array : ~CommandEntity(array[i])
         \/ \E i \in DOMAIN array :
              /\ Commands(array) = {array[i].object}
              /\ CommandEntity(array[i])
              /\ \A j \in 1..(i - 1) : ~CommandEntity(array[j])
<1> DEFINE found == {i \in Objects(array) : IsCommand(array[i].object)}
           first == {j \in found : \A k \in found : j <= k}
<1>1. Commands(array) = {array[i].object : i \in first}
  BY DEF Commands
<1>2. \A i \in DOMAIN array : i \in found <=> CommandEntity(array[i])
  BY CommandEntityIs
<1>3. found \subseteq DOMAIN array /\ DOMAIN array = 1..n
  BY DEF Objects
<1> HIDE DEF found
<1>4. CASE found = {}
  BY <1>1, <1>2, <1>4
<1>5. CASE found # {}
  <2>1. found \in SUBSET Nat
    BY <1>3
  <2>2. PICK i \in found : \A k \in found : i <= k
    BY <1>5, <2>1, Least
  <2>3. first = {i}
    <3>1. \A j \in found : j \in Nat
      BY <2>1
    <3>2. \A j \in first : j <= i /\ i <= j
      BY <2>2
    <3>3. \A j \in first : j = i
      BY <3>1, <3>2
    <3> QED BY <2>2, <3>3
  <2>4. Commands(array) = {array[i].object}
    BY <1>1, <2>3
  <2>5. \A j \in 1..(i - 1) : j \in DOMAIN array /\ j \notin found
    BY <1>3, <2>2
  <2> QED BY <1>2, <1>3, <2>2, <2>4, <2>5
<1> QED BY <1>4, <1>5

Cuts(i) == CommandText(Text, Array[i].object)

(* What becomes of an update that is not ignored. *)
IsText(user) ==
  /\ outcome = Outcome("text", user, {})
  /\ \A i \in DOMAIN Array : ~CommandEntity(Array[i])

IsCommandAt(i, user) ==
  /\ CommandEntity(Array[i])
  /\ \A j \in 1..(i - 1) : ~CommandEntity(Array[j])
  /\ \/ Cuts(i) = {} /\ outcome = Outcome("broken", user, {})
     \/ \E c \in Cuts(i) : outcome = Outcome("command", user, c)

LEMMA TextMessageIs ==
  ASSUME Shape, HasMessage, NEW user, outcome = TextMessage(Message, Text, user)
  PROVE  IsText(user) \/ \E i \in DOMAIN Array : IsCommandAt(i, user)
<1> DEFINE commands == UNION {Commands(a) : a \in Member(Message, "entities", "array")}
<1> DEFINE first == CHOOSE c \in commands : TRUE
<1> DEFINE cut == CommandText(Text, first)
<1>1. outcome = IF commands = {} THEN Outcome("text", user, {})
                ELSE IF cut = {} THEN Outcome("broken", user, {})
                ELSE Outcome("command", user, CHOOSE c \in cut : TRUE)
  BY DEF TextMessage
<1>2. CASE ~IsA(Message, "entities", "array")
  <2>1. Array = <<>> /\ commands = {}
    BY <1>2, MemberIs DEF Array
  <2>2. DOMAIN Array = {}
    BY <2>1
  <2> HIDE DEF commands
  <2> QED BY <1>1, <2>1, <2>2 DEF IsText
<1>3. CASE IsA(Message, "entities", "array")
  <2>1. Array = Message.entities.array
    BY <1>3 DEF Array
  <2>2. commands = Commands(Array)
    BY <1>3, <2>1, MemberIs
  <2>3. PICK n \in Nat : Array \in [1..n -> Entities]
    BY <1>3, <2>1 DEF Shape, ArrayShape
  <2> HIDE DEF commands
  <2>4. CASE commands = {} /\ \A i \in DOMAIN Array : ~CommandEntity(Array[i])
    BY <1>1, <2>4 DEF IsText
  <2>5. ASSUME NEW i \in DOMAIN Array, commands = {Array[i].object},
               CommandEntity(Array[i]), \A j \in 1..(i - 1) : ~CommandEntity(Array[j])
        PROVE  IsCommandAt(i, user)
    <3>1. first = Array[i].object
      BY <2>5
    <3>2. cut = Cuts(i)
      BY <3>1 DEF Cuts
    <3> HIDE DEF cut
    <3>3. cut = {} => outcome = Outcome("broken", user, {})
      BY <1>1, <2>5
    <3>4. cut # {} => outcome = Outcome("command", user, CHOOSE c \in cut : TRUE)
      BY <1>1, <2>5
    <3>5. cut # {} => (CHOOSE c \in cut : TRUE) \in cut
      OBVIOUS
    <3> QED BY <2>5, <3>2, <3>3, <3>4, <3>5 DEF IsCommandAt
  <2> QED BY <2>2, <2>3, <2>4, <2>5, CommandsAre
<1> QED BY <1>2, <1>3

LEMMA OutcomeIs ==
  ASSUME Inv, outcome.kind # "none"
  PROVE  \/ ~TextOfUser /\ outcome = Ignored
         \/ /\ TextOfUser
            /\ LET user == Message.from.object.id.int64 IN
                 IsText(user) \/ \E i \in DOMAIN Array : IsCommandAt(i, user)
<1> DEFINE messages == Member(update, "message", "object")
<1> DEFINE texts == Member(Message, "text", "string")
<1> DEFINE users == UNION {Member(from, "id", "int64") : from \in Member(Message, "from", "object")}
<1>1. outcome = Processed(update)
  BY DEF Inv
<1>2. CASE ~HasMessage
  <2>1. messages = {}
    BY <1>2, MemberIs DEF HasMessage
  <2>2. ~TextOfUser
    BY <1>2 DEF HasMessage, TextOfUser
  <2> QED BY <1>1, <2>1, <2>2 DEF Processed
<1>3. CASE HasMessage
  <2>1. messages = {Message}
    BY <1>3, MemberIs DEF HasMessage, Message
  <2>2. outcome = MessageUpdate(Message)
    BY <1>1, <2>1 DEF Processed
  <2>3. texts = IF IsA(Message, "text", "string") THEN {Text} ELSE {}
    BY MemberIs DEF Text
  <2>4. users = IF IsA(Message, "from", "object") /\ IsA(Message.from.object, "id", "int64")
                THEN {Message.from.object.id.int64} ELSE {}
    <3>1. CASE ~IsA(Message, "from", "object")
      BY <3>1, MemberIs
    <3>2. CASE IsA(Message, "from", "object")
      <4>1. users = Member(Message.from.object, "id", "int64")
        BY <3>2, MemberIs
      <4> QED BY <3>2, <4>1, MemberIs
    <3> QED BY <3>1, <3>2
  <2>5. TextOfUser <=> texts # {} /\ users # {}
    BY <1>3, <2>3, <2>4 DEF TextOfUser, HasMessage
  <2>6. outcome = IF texts = {} \/ users = {} THEN Ignored
                  ELSE TextMessage(Message, CHOOSE t \in texts : TRUE, CHOOSE u \in users : TRUE)
    BY <2>2 DEF MessageUpdate
  <2>7. CASE ~TextOfUser
    BY <2>5, <2>6, <2>7
  <2>8. CASE TextOfUser
    <3>1. texts = {Text} /\ users = {Message.from.object.id.int64}
      BY <2>3, <2>4, <2>5, <2>8
    <3> HIDE DEF texts, users
    <3>2. outcome = TextMessage(Message, Text, Message.from.object.id.int64)
      BY <2>5, <2>6, <2>8, <3>1
    <3> QED BY <1>3, <2>8, <3>2, TextMessageIs DEF Inv
  <2> QED BY <2>7, <2>8
<1> QED BY <1>2, <1>3

LEMMA CommandFoundFollows == Inv => CommandFound
<1> SUFFICES ASSUME Inv, outcome.kind # "none" PROVE CommandFound
  BY DEF CommandFound
<1> DEFINE user == Message.from.object.id.int64
<1>1. CASE ~TextOfUser /\ outcome = Ignored
  BY <1>1 DEF Ignored, Outcome, CommandFound
<1>2. CASE TextOfUser /\ IsText(user)
  <2>1. outcome.kind = "text" /\ outcome.user = user
    BY <1>2 DEF IsText, Outcome
  <2> QED BY <1>2, <2>1 DEF IsText, CommandFound
<1>3. ASSUME TextOfUser, NEW i \in DOMAIN Array, IsCommandAt(i, user) PROVE CommandFound
  <2>1. outcome.kind \in {"broken", "command"} /\ outcome.user = user
    BY <1>3 DEF IsCommandAt, Outcome
  <2>2. CommandEntity(Array[i])
    BY <1>3 DEF IsCommandAt
  <2> QED BY <1>3, <2>1, <2>2 DEF CommandFound
<1> QED BY <1>1, <1>2, <1>3, OutcomeIs

(* What becomes of a command is up to its entity. *)
LEMMA CommandIs ==
  ASSUME Inv, outcome.kind \in {"command", "broken"}
  PROVE  /\ HasMessage /\ Text \in Texts
         /\ \E i \in DOMAIN Array : IsCommandAt(i, Message.from.object.id.int64)
<1>1. outcome.kind \notin {"none", "ignored", "text"}
  OBVIOUS
<1>2. /\ TextOfUser
      /\ LET user == Message.from.object.id.int64 IN
           IsText(user) \/ \E i \in DOMAIN Array : IsCommandAt(i, user)
  BY <1>1, OutcomeIs DEF Ignored, Outcome
<1>3. HasMessage /\ IsA(Message, "text", "string")
  BY <1>2 DEF TextOfUser, HasMessage
<1>4. ~IsText(Message.from.object.id.int64)
  BY <1>1 DEF IsText, Outcome
<1> QED BY <1>2, <1>3, <1>4 DEF Inv, Shape, TextShape

(* Whatever an update is made of, it is taken for a command exactly if it  *)
(* is a text of a user with a command entity, and no text of a user is     *)
(* ignored.                                                                *)
THEOREM FoundIfThere == Spec => []CommandFound
BY Invariance, CommandFoundFollows, PTL

-----------------------------------------------------------------------------
(* Bytes and units. *)

LEMMA NumberType ==
  ASSUME Shape, HasMessage, NEW i \in DOMAIN Array, NEW key \in {"offset", "length"},
         "object" \in DOMAIN Array[i], Number(Array[i], key)
  PROVE  Array[i].object[key].int64 \in Int
<1>1. IsA(Message, "entities", "array")
  BY DEF Array
<1>2. Array[i] \in Entities
  <2>1. Array = Message.entities.array
    BY <1>1 DEF Array
  <2> QED BY <1>1, <2>1 DEF Shape, ArrayShape
<1>3. Array[i] # Other
  BY DEF Other
<1>4. PICK e \in [type: {None} \cup Strings({"bold", "bot_command"}),
                 offset: {None} \cup Numbers, length: {Other} \cup Numbers] :
        Array[i] = Object(e)
  BY <1>2, <1>3 DEF Entities
<1>5. Array[i].object[key] = e[key] /\ "int64" \in DOMAIN e[key]
  BY <1>4, ObjectMember DEF Number, IsA
<1>6. e[key] \in {None} \cup Numbers \/ e[key] \in {Other} \cup Numbers
  BY <1>4
<1>7. e[key] # None
  BY <1>4 DEF Object, Number, IsA
<1>8. e[key] # Other
  BY <1>5 DEF Other
<1>9. e[key] \in Numbers
  BY <1>6, <1>7, <1>8
<1>10. \A n \in Numbers : n.int64 \in -1..MaxNumber
  BY DEF Numbers
<1> QED BY <1>5, <1>9, <1>10, UpdateParsingAssumption

LEMMA TextType ==
  ASSUME Text \in Texts
  PROVE  /\ Len(Text) \in Nat /\ 2 * Len(Text) < Word /\ Word \in Nat
         /\ DOMAIN Text = 1..Len(Text)
         /\ \A p \in 1..Len(Text) : Text[p] \in Bytes
         /\ WellFormed(Text)
<1>1. PICK n \in 0..MaxBytes : Text \in [1..n -> Bytes]
  BY DEF Texts, UpTo
<1>2. n \in Nat /\ n <= MaxBytes
  BY <1>1, UpdateParsingAssumption
<1>3. Len(Text) = n
  BY <1>1, <1>2
<1> QED BY <1>1, <1>2, <1>3, UpdateParsingAssumption DEF Texts

(* A text has no more units than bytes. *)
LEMMA UnitsFit ==
  ASSUME Text \in Texts
  PROVE  IsFiniteSet(Units) /\ Cardinality(Units) \in 0..Len(Text)
<1>1. Len(Text) \in Nat /\ DOMAIN Text = 1..Len(Text)
  BY TextType
<1>2. IsFiniteSet(1..Len(Text)) /\ Cardinality(1..Len(Text)) = Len(Text)
  <2>1. IsFiniteSet(1..Len(Text))
    BY <1>1, FS_Interval
  <2>2. Cardinality(1..Len(Text)) = IF 1 > Len(Text) THEN 0 ELSE Len(Text) - 1 + 1
    BY <1>1, FS_Interval
  <2> QED BY <1>1, <2>1, <2>2
<1>3. Units \in SUBSET (1..Len(Text))
  BY <1>1 DEF Units
<1>4. IsFiniteSet(Units) /\ Cardinality(Units) <= Cardinality(1..Len(Text))
  BY <1>2, <1>3, FS_Subset
<1>5. Cardinality(Units) \in Nat
  BY <1>4, FS_CardinalityType
<1> QED BY <1>1, <1>2, <1>4, <1>5

(* What is cut out for an entity that lies in the text. *)
LEMMA CutInText ==
  ASSUME Shape, HasMessage, Text \in Texts,
         NEW i \in DOMAIN Array, CommandEntity(Array[i]), InText(Array[i])
  PROVE  LET offset == Array[i].object.offset.int64
             length == Array[i].object.length.int64 IN
           /\ offset \in Nat /\ length \in Nat /\ offset + length <= Cardinality(Units)
           /\ Cuts(i) = {(offset + 1)..(offset + length)}
<1> DEFINE offset == Array[i].object.offset.int64
<1> DEFINE length == Array[i].object.length.int64
<1>1. Number(Array[i], "offset") /\ Number(Array[i], "length")
  BY DEF InText
<1>2. offset \in Int /\ length \in Int
  BY <1>1, NumberType DEF CommandEntity
<1>3. 0 <= offset /\ 0 <= length /\ offset + length <= Cardinality(Units)
  BY DEF InText
<1>4. Cuts(i) = Cut(Text, offset, length)
  <2>1. /\ Member(Array[i].object, "offset", "int64") = {offset}
        /\ Member(Array[i].object, "length", "int64") = {length}
    BY <1>1, MemberIs DEF Number
  <2> HIDE DEF offset, length
  <2>2. CommandText(Text, Array[i].object) =
          UNION {Cut(Text, n[1], n[2]) : n \in {offset} \X {length}}
    BY <2>1 DEF CommandText
  <2>3. {offset} \X {length} = {<<offset, length>>}
    OBVIOUS
  <2>4. {Cut(Text, n[1], n[2]) : n \in {<<offset, length>>}} = {Cut(Text, offset, length)}
    OBVIOUS
  <2> QED BY <2>2, <2>3, <2>4 DEF Cuts
<1> HIDE DEF offset, length
<1>5. /\ offset \in Nat /\ length \in Nat /\ Len(Text) \in Nat /\ Word \in Nat
      /\ offset + length <= Len(Text) /\ 2 * Len(Text) < Word
  BY <1>2, <1>3, TextType, UnitsFit
<1>6. offset % Word = offset /\ length % Word = length
  BY <1>5
<1>7. Cut(Text, offset, length) = {(offset + 1)..(offset + length)}
  BY <1>5, <1>6 DEF Cut, Subview
<1> QED BY <1>3, <1>4, <1>5, <1>7 DEF offset, length

LEMMA SoundEntityFollows == Inv => SoundEntityAnswered
<1> SUFFICES ASSUME Inv, outcome.kind = "broken"
             PROVE  \E i \in DOMAIN Array : FirstCommand(i) /\ ~InText(Array[i])
  BY DEF SoundEntityAnswered
<1>1. HasMessage /\ Text \in Texts
  BY CommandIs
<1>2. PICK i \in DOMAIN Array : IsCommandAt(i, Message.from.object.id.int64)
  BY CommandIs
<1>3. FirstCommand(i) /\ Cuts(i) = {}
  BY <1>2 DEF IsCommandAt, Outcome, FirstCommand
<1>4. ~InText(Array[i])
  BY <1>1, <1>3, CutInText DEF Inv, FirstCommand
<1> QED BY <1>3, <1>4

(* No entity that lies in its text, as the bot API counts, ends a dialog,  *)
(* for texts of any length and width.                                      *)
THEOREM SoundEntitiesAnswered == Spec => []SoundEntityAnswered
BY Invariance, SoundEntityFollows, PTL

(* As far as all units are ASCII, units and bytes are the same. *)
LEMMA AsciiPrefix ==
  ASSUME Text \in Texts, NEW m \in Nat, m <= Cardinality(Units), AsciiUpTo(m)
  PROVE  \A p \in 1..m : p \in DOMAIN Text /\ Text[p] = "ascii"
<1> DEFINE wide == {p \in 1..m : Text[p] # "ascii"}
<1>1. m <= Len(Text) /\ Len(Text) \in Nat /\ DOMAIN Text = 1..Len(Text)
  BY TextType, UnitsFit
<1>2. SUFFICES ASSUME wide # {} PROVE FALSE
  BY <1>1
<1>3. wide \in SUBSET Nat
  OBVIOUS
<1>4. PICK p \in wide : \A q \in wide : p <= q
  BY <1>2, <1>3, Least
<1>5. \A q \in 1..(p - 1) : q \in DOMAIN Text /\ Text[q] = "ascii"
  BY <1>1, <1>4
<1>6. {q \in Units : q < p} = 1..(p - 1)
  <2>1. \A q \in 1..(p - 1) : q \in Units /\ q < p
    BY <1>4, <1>5 DEF Units
  <2>2. \A q \in Units : q \in 1..Len(Text)
    BY <1>1 DEF Units
  <2> QED BY <1>1, <1>4, <2>1, <2>2
<1>7. UnitsBefore(p) = p - 1
  <2>1. Cardinality(1..(p - 1)) = p - 1
    BY <1>4, FS_Interval
  <2> QED BY <1>6, <2>1 DEF UnitsBefore
<1>8. Text[p] # "cont"
  <2>1. SUFFICES ASSUME Text[p] = "cont" PROVE FALSE
    OBVIOUS
  <2>2. PICK q \in 1..(p - 1) : p <= q + Follow[Text[q]]
    BY <1>1, <1>4, <2>1, TextType DEF WellFormed
  <2>3. Follow["ascii"] = 0
    BY DEF Follow
  <2> QED BY <1>4, <1>5, <2>2, <2>3
<1>9. p \in Units
  BY <1>1, <1>4, <1>8 DEF Units
<1> QED BY <1>4, <1>7, <1>9 DEF AsciiUpTo

LEMMA NamedAre ==
  ASSUME Text \in Texts, NEW offset \in Nat, NEW length \in Nat,
         offset + length <= Cardinality(Units), AsciiUpTo(offset + length)
  PROVE  {p \in Units : offset <= UnitsBefore(p) /\ UnitsBefore(p) < offset + length} =
           (offset + 1)..(offset + length)
<1> DEFINE m == offset + length
<1>1. m \in Nat
  OBVIOUS
<1>2. \A p \in 1..m : p \in DOMAIN Text /\ Text[p] = "ascii"
  BY AsciiPrefix
<1>3. \A p \in 1..m : p \in Units
  BY <1>2 DEF Units
<1>4. \A p \in Units : p \in Nat /\ p >= 1
  BY TextType DEF Units
<1> HIDE DEF m
<1>5. ASSUME NEW p \in 1..m PROVE UnitsBefore(p) = p - 1
  <2>1. {q \in Units : q < p} = 1..(p - 1)
    BY <1>1, <1>3, <1>4
  <2>2. Cardinality(1..(p - 1)) = p - 1
    BY <1>1, FS_Interval
  <2> QED BY <2>1, <2>2 DEF UnitsBefore
<1>6. ASSUME NEW p \in Units, p > m PROVE ~(UnitsBefore(p) < m)
  <2>1. 1..m \subseteq {q \in Units : q < p}
    BY <1>1, <1>3, <1>4, <1>6
  <2>2. IsFiniteSet({q \in Units : q < p})
    BY UnitsFit, FS_Subset
  <2>3. Cardinality(1..m) <= Cardinality({q \in Units : q < p})
    BY <2>1, <2>2, FS_Subset
  <2>4. Cardinality(1..m) = m
    BY <1>1, FS_Interval
  <2>5. UnitsBefore(p) \in Nat
    BY <2>2, FS_CardinalityType DEF UnitsBefore
  <2> QED BY <1>1, <2>3, <2>4, <2>5 DEF UnitsBefore
<1>7. \A p \in Units : p \in 1..m \/ p > m
  BY <1>1, <1>4
<1> QED BY <1>1, <1>3, <1>5, <1>6, <1>7 DEF m

LEMMA CommandNamedFollows == Inv => CommandIsNamed
<1> SUFFICES ASSUME Inv, outcome.kind = "command",
                    NEW k \in DOMAIN Array, FirstCommand(k), InText(Array[k]),
                    AsciiUpTo(Array[k].object.offset.int64 + Array[k].object.length.int64)
             PROVE  outcome.command = Named(Array[k])
  BY DEF CommandIsNamed
<1> DEFINE user == Message.from.object.id.int64
<1> DEFINE offset == Array[k].object.offset.int64
<1> DEFINE length == Array[k].object.length.int64
<1>1. HasMessage
  BY CommandIs
<1>2. PICK i \in DOMAIN Array : IsCommandAt(i, user)
  BY CommandIs
<1>3. i = k
  <2>1. /\ CommandEntity(Array[i])
        /\ \A j \in 1..(i - 1) : ~CommandEntity(Array[j])
    BY <1>2 DEF IsCommandAt
  <2>2. CommandEntity(Array[k]) /\ \A j \in 1..(k - 1) : ~CommandEntity(Array[j])
    BY DEF FirstCommand
  <2>3. i \in Nat \ {0} /\ k \in Nat \ {0}
    <3>1. IsA(Message, "entities", "array")
      BY DEF Array
    <3>2. PICK n \in Nat : DOMAIN Array = 1..n
      BY <1>1, <3>1 DEF Inv, Shape, ArrayShape, Array
    <3> QED BY <3>2
  <2>4. ~(k < i) /\ ~(i < k)
    BY <2>1, <2>2, <2>3
  <2> QED BY <2>3, <2>4
<1>4. Text \in Texts
  BY CommandIs
<1>5. /\ offset \in Nat /\ length \in Nat /\ offset + length <= Cardinality(Units)
      /\ Cuts(k) = {(offset + 1)..(offset + length)}
  BY <1>1, <1>4, CutInText DEF Inv, FirstCommand
<1>6. PICK c \in Cuts(k) : outcome = Outcome("command", user, c)
  BY <1>2, <1>3 DEF IsCommandAt, Outcome
<1>7. outcome.command = (offset + 1)..(offset + length)
  BY <1>5, <1>6 DEF Outcome
<1>8. Named(Array[k]) = (offset + 1)..(offset + length)
  BY <1>4, <1>5, NamedAre DEF Named
<1> QED BY <1>7, <1>8

(* The text of a command is what the entity names, if only ASCII comes     *)
(* before its end: counting units as bytes is wrong for no other reason.   *)
THEOREM AsciiCommandsNamed == Spec => []CommandIsNamed
BY Invariance, CommandNamedFollows, PTL
===============================================================================
