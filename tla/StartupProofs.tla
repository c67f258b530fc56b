----------------------------- MODULE StartupProofs -----------------------------
(***************************************************************************)
(* What the exit codes and a successful start mean, for credentials of any *)
(* length made of any characters and any command line.                     *)
(*                                                                         *)
(* The library has no greatest element of a set of numbers, and its        *)
(* induction theorems cannot be used here, so that trimming ends somewhere *)
(* is derived from the well-foundedness of finite sets.                    *)
(***************************************************************************)
EXTENDS Startup, FiniteSets, FiniteSetTheorems, WellFoundedInduction, TLAPS

LEMMA Greatest ==
  ASSUME NEW n \in Nat, NEW T \in SUBSET (0..n), T # {}
  PROVE  \E m \in T : \A k \in T : k <= m
<1> DEFINE Above(m) == {k \in T : k >= m}
<1> DEFINE F == {Above(m) : m \in T}
<1> DEFINE R == StrictSubsetOrdering(T)
<1>1. IsFiniteSet(T)
  <2>1. IsFiniteSet(0..n)
    BY FS_Interval
  <2> QED BY <2>1, FS_Subset
<1>2. IsWellFoundedOn(R, FiniteSubsetsOf(T))
  BY FS_StrictSubsetOrderingWellFounded
<1>3. F \subseteq FiniteSubsetsOf(T) /\ F # {}
  <2>1. \A m \in T : Above(m) \in SUBSET T
    OBVIOUS
  <2>2. \A X \in SUBSET T : IsFiniteSet(X)
    BY <1>1, FS_Subset
  <2> HIDE DEF Above
  <2> QED BY <2>1, <2>2 DEF FiniteSubsetsOf
<1>4. \E X \in F : \A Y \in F : ~(<<Y, X>> \in R)
  <2> HIDE DEF F, R
  <2> QED BY <1>2, <1>3, WFMin
<1>5. PICK m \in T : \A k \in T : ~(<<Above(k), Above(m)>> \in R)
  BY <1>4
<1>6. \A k \in T : k \in Int
  OBVIOUS
<1>7. ASSUME NEW k \in T, k > m PROVE FALSE
  <2>1. \A x \in Above(k) : x \in Above(m)
    BY <1>6, <1>7
  <2>2. m \in Above(m) /\ m \notin Above(k)
    BY <1>6, <1>7
  <2>3. Above(k) \subseteq T /\ Above(m) \subseteq T
    OBVIOUS
  <2> HIDE DEF Above
  <2>4. <<Above(k), Above(m)>> \in R
    BY <2>1, <2>2, <2>3 DEF StrictSubsetOrdering
  <2> QED BY <1>5, <2>4
<1> QED BY <1>6, <1>7

-----------------------------------------------------------------------------
LEMMA TextType ==
  ASSUME NEW s \in Texts
  PROVE  /\ s \in Seq(Chars) /\ Len(s) \in Nat /\ Len(s) <= MaxLength
         /\ DOMAIN s = 1..Len(s)
<1>1. PICK n \in 0..MaxLength : s \in [1..n -> Chars]
  BY DEF Texts
<1>2. n \in Nat /\ n <= MaxLength
  BY StartupAssumption
<1> QED BY <1>1, <1>2

LEMMA PrefixType ==
  ASSUME NEW s \in Texts, NEW n \in 0..Len(s)
  PROVE  /\ SubSeq(s, 1, n) \in Texts /\ Len(SubSeq(s, 1, n)) = n
         /\ \A i \in 1..n : SubSeq(s, 1, n)[i] = s[i]
<1>1. s \in Seq(Chars) /\ Len(s) \in Nat /\ Len(s) <= MaxLength /\ MaxLength \in Nat
  BY TextType, StartupAssumption
<1>2. n \in 0..MaxLength
  BY <1>1
<1>3. /\ SubSeq(s, 1, n) \in [1..n -> Chars] /\ Len(SubSeq(s, 1, n)) = n
      /\ \A i \in 1..n : SubSeq(s, 1, n)[i] = s[i]
  <2>1. n \in Nat /\ n <= Len(s)
    BY <1>1
  <2>2. SubSeq(s, 1, n) = [i \in 1..n |-> s[i]]
    BY <1>1, <2>1
  <2>3. \A i \in 1..n : s[i] \in Chars
    BY <1>1, <2>1
  <2>4. Len(SubSeq(s, 1, n)) = n
    BY <1>1, <2>1
  <2> QED BY <2>2, <2>3, <2>4
<1> QED BY <1>2, <1>3 DEF Texts

(* What is taken off the end is white space, and all of it. *)
LEMMA TrimmedIsTrimmed ==
  ASSUME NEW s \in Texts
  PROVE  Trimmed(s) \in Texts /\ IsTrimmed(Trimmed(s), s)
<1> DEFINE solid == {0} \cup {i \in DOMAIN s : s[i] # White}
<1> DEFINE n == CHOOSE m \in solid : \A i \in solid : i <= m
<1>1. Len(s) \in Nat /\ DOMAIN s = 1..Len(s)
  BY TextType
<1>2. solid \in SUBSET (0..Len(s)) /\ solid # {}
  BY <1>1
<1>3. n \in solid /\ \A i \in solid : i <= n
  <2> HIDE DEF solid
  <2>1. \E m \in solid : \A i \in solid : i <= m
    BY <1>1, <1>2, Greatest
  <2> QED BY <2>1
<1>4. Trimmed(s) = SubSeq(s, 1, n)
  BY DEF Trimmed
<1> HIDE DEF n
<1>5. n \in 0..Len(s) /\ n \in Nat
  BY <1>1, <1>2, <1>3
<1>6. /\ SubSeq(s, 1, n) \in Texts /\ Len(SubSeq(s, 1, n)) = n
      /\ \A i \in 1..n : SubSeq(s, 1, n)[i] = s[i]
  BY <1>5, PrefixType
<1>7. n # 0 => s[n] # White
  BY <1>3
<1>8. \A i \in 1..Len(s) : i > n => s[i] = White
  BY <1>1, <1>3, <1>5
<1> DEFINE t == SubSeq(s, 1, n)
<1>9. IsTrimmed(t, s)
  <2>1. Len(t) <= Len(s)
    BY <1>1, <1>5, <1>6
  <2>2. \A i \in DOMAIN s : IF i <= Len(t) THEN t[i] = s[i] ELSE s[i] = White
    <3> HIDE DEF t
    <3> QED BY <1>1, <1>5, <1>6, <1>8 DEF t
  <2>3. t # <<>> => t[Len(t)] # White
    <3>1. n = 0 => Len(t) = 0 /\ t \in Seq(Chars)
      BY <1>6, TextType
    <3>2. t # <<>> => n # 0
      BY <3>1
    <3> QED BY <1>5, <1>6, <1>7, <3>2
  <2> QED BY <2>1, <2>2, <2>3 DEF IsTrimmed
<1> QED BY <1>4, <1>6, <1>9

(* A blank text trimmed is empty, and only a blank one. *)
LEMMA TrimmedBlank ==
  ASSUME NEW s \in Texts, NEW t \in Texts, IsTrimmed(t, s)
  PROVE  t = <<>> <=> Blank(s)
<1>1. /\ Len(s) \in Nat /\ DOMAIN s = 1..Len(s)
      /\ Len(t) \in Nat /\ DOMAIN t = 1..Len(t) /\ t \in Seq(Chars)
  BY TextType
<1>2. t = <<>> => Blank(s)
  BY <1>1 DEF IsTrimmed, Blank
<1>3. t # <<>> => ~Blank(s)
  <2> SUFFICES ASSUME t # <<>> PROVE ~Blank(s)
    OBVIOUS
  <2>1. Len(t) # 0 /\ Len(t) \in 1..Len(s) /\ t[Len(t)] # White
    BY <1>1 DEF IsTrimmed
  <2>2. s[Len(t)] = t[Len(t)]
    BY <1>1, <2>1 DEF IsTrimmed
  <2> QED BY <1>1, <2>1, <2>2 DEF Blank
<1> QED BY <1>2, <1>3

-----------------------------------------------------------------------------
(* A credential was not there and has a default, or holds something. *)
Credited(c) ==
  given[c] # Unread =>
    \/ files[c] = Missing /\ c \notin Required
    \/ /\ files[c] \in Texts /\ files[c] # <<>>
       /\ given[c] \in Texts /\ IsTrimmed(given[c], files[c])

Located ==
  phase = "up" =>
    /\ given["mysql-socket"] # <<>>
    /\ address = "unix_path" <=> given["mysql-socket"][1] = Slash

(* The inductive invariant: what a phase can rely on. *)
IInv ==
  /\ TypeOK
  /\ \A c \in Credentials : Credited(c)
  /\ phase \in {"run", "load", "tg", "db", "up"} => dir = "directory"
  /\ args.help => Occurs("help") # {}
  /\ phase \in {"load", "tg", "db", "up"} => ~args.help
  /\ phase \in {"tg", "db", "up"} => \A c \in Credentials : given[c] # Unread
  /\ Located
  /\ phase # "exited" => exitCode = "none"
  /\ ExitExplained

LEMMA EmptyText == <<>> \in Texts
<1>1. 0 \in 0..MaxLength /\ <<>> \in [1..0 -> Chars]
  BY StartupAssumption
<1> QED BY <1>1 DEF Texts

(* The value of an option that was validated is an enumerator. *)
LEMMA ValueType ==
  ASSUME cmdline \in Seq(Args), NEW opt \in {"loglevel", "ssl"}, Valid(opt)
  PROVE  Value(opt) \in Enumerators[opt]
<1>1. CASE Occurs(opt) = {}
  BY <1>1 DEF Value, Default, Enumerators
<1>2. CASE Occurs(opt) # {}
  BY <1>2 DEF Value, Valid
<1> QED BY <1>1, <1>2

LEMMA GetCredType ==
  ASSUME TypeOK, NEW c \in Credentials, GetCred(c)
  PROVE  given' \in [Credentials -> Texts \cup {OsUser, Unread}]
<1> DEFINE Given == Texts \cup {OsUser, Unread}
<1>1. given \in [Credentials -> Given]
  BY DEF TypeOK
<1>2. \A d \in DOMAIN Defaults : Defaults[d] \subseteq Given
  BY EmptyText DEF Defaults
<1>3. \A f \in Files : f # Missing /\ ~CannotMap(f) => Trimmed(f) \in Given
  BY TrimmedIsTrimmed DEF Files, CannotMap
<1>4. given' = given \/ \E t \in Given : given' = [given EXCEPT ![c] = t]
  <2> HIDE DEF Given
  <2> QED BY <1>2, <1>3 DEF GetCred
<1> HIDE DEF Given
<1>5. given' \in [Credentials -> Given]
  BY <1>1, <1>4
<1> QED BY <1>5 DEF Given

LEMMA TypeStep ==
  ASSUME TypeOK, [Next]_vars
  PROVE  TypeOK'
<1>1. CASE UNCHANGED vars
  BY <1>1 DEF vars, TypeOK
<1>2. CASE ParseCmdLine
  <2>1. CASE Parsed /\ args' = [help |-> Occurs("help") # {},
                               loglevel |-> Value("loglevel"), ssl |-> Value("ssl")]
    <3>1. Value("loglevel") \in Enumerators.loglevel /\ Value("ssl") \in Enumerators.ssl
      BY <2>1, ValueType DEF Parsed, TypeOK
    <3>2. (Occurs("help") # {}) \in BOOLEAN
      OBVIOUS
    <3>3. args' \in [help: BOOLEAN, loglevel: Enumerators.loglevel,
                     ssl: Enumerators.ssl]
      BY <2>1, <3>1, <3>2
    <3> QED BY <1>2, <3>3 DEF ParseCmdLine, Exit, TypeOK, Codes
  <2>2. CASE UNCHANGED args
    BY <1>2, <2>2 DEF ParseCmdLine, Exit, TypeOK, Codes
  <2> QED BY <1>2, <2>1, <2>2 DEF ParseCmdLine
<1>3. CASE MakeCred
  BY <1>3 DEF MakeCred, Exit, TypeOK, Codes
<1>4. CASE Run
  BY <1>4 DEF Run, Exit, TypeOK, Codes
<1>5. ASSUME NEW c \in Credentials, GetCred(c) PROVE TypeOK'
  <2>1. given' \in [Credentials -> Texts \cup {OsUser, Unread}]
    BY <1>5, GetCredType
  <2>2. files' \in [Credentials -> Files \cup {Unread}]
    BY <1>5 DEF GetCred, TypeOK
  <2>3. phase' \in {"load", "exited"} /\ exitCode' \in Codes
    BY <1>5 DEF GetCred, Exit, TypeOK, Codes
  <2> QED BY <1>5, <2>1, <2>2, <2>3 DEF GetCred, TypeOK
<1>6. CASE MakeInventory
  BY <1>6 DEF MakeInventory, TypeOK
<1>7. CASE MakeTg
  BY <1>7 DEF MakeTg, Exit, TypeOK, Codes
<1>8. CASE MakeDb
  BY <1>8 DEF MakeDb, Exit, TypeOK, Codes
<1> QED BY <1>1, <1>2, <1>3, <1>4, <1>5, <1>6, <1>7, <1>8 DEF Next

(* Reading a credential leaves it as Credited says and the others alone. *)
LEMMA GetCredCredited ==
  ASSUME TypeOK, \A d \in Credentials : Credited(d),
         NEW c \in Credentials, GetCred(c), NEW d \in Credentials
  PROVE  Credited(d)'
<1>1. PICK f \in Files :
        /\ files' = [files EXCEPT ![c] = f]
        /\ \/ /\ f = Missing /\ c \in DOMAIN Defaults
              /\ \E t \in Defaults[c] : given' = [given EXCEPT ![c] = t]
           \/ given' = given
           \/ /\ f # Missing /\ ~CannotMap(f)
              /\ given' = [given EXCEPT ![c] = Trimmed(f)]
  BY DEF GetCred
<1>2. /\ given \in [Credentials -> Texts \cup {OsUser, Unread}]
      /\ files \in [Credentials -> Files \cup {Unread}]
  BY DEF TypeOK
<1>3. given[c] = Unread
  BY DEF GetCred
<1>4. CASE d # c
  <2>1. files'[d] = files[d] /\ given'[d] = given[d]
    BY <1>1, <1>2, <1>4
  <2> QED BY <2>1 DEF Credited
<1>5. CASE d = c /\ given' = given
  BY <1>3, <1>5 DEF Credited
<1>6. CASE d = c /\ f = Missing /\ c \in DOMAIN Defaults
  <2>1. files'[c] = Missing
    BY <1>1, <1>2, <1>6
  <2>2. c \notin Required
    BY <1>6 DEF Defaults, Required
  <2> QED BY <1>6, <2>1, <2>2 DEF Credited
<1>7. CASE d = c /\ f # Missing /\ ~CannotMap(f) /\ given' = [given EXCEPT ![c] = Trimmed(f)]
  <2>1. files'[c] = f /\ given'[c] = Trimmed(f)
    BY <1>1, <1>2, <1>7
  <2>2. f \in Texts /\ f # <<>>
    BY <1>7 DEF Files, CannotMap
  <2>3. Trimmed(f) \in Texts /\ IsTrimmed(Trimmed(f), f)
    BY <2>2, TrimmedIsTrimmed
  <2> QED BY <1>7, <2>1, <2>2, <2>3 DEF Credited
<1> QED BY <1>1, <1>4, <1>5, <1>6, <1>7

(* The credential whose absence ends the process is one without default. *)
LEMMA GetCredExits ==
  ASSUME TypeOK, exitCode = "none", NEW c \in Credentials, GetCred(c)
  PROVE  ExitExplained'
<1>1. files \in [Credentials -> Files \cup {Unread}]
  BY DEF TypeOK
<1>2. PICK f \in Files :
        /\ files' = [files EXCEPT ![c] = f]
        /\ \/ exitCode' = "none"
           \/ f = Missing /\ c \notin DOMAIN Defaults /\ exitCode' = "no_credentials"
           \/ CannotMap(f) /\ exitCode' = "caught_exception"
  BY DEF GetCred, Exit
<1>3. files'[c] = f
  BY <1>1, <1>2
<1>4. c \notin DOMAIN Defaults => c \in Required
  BY DEF Defaults, Required, Credentials
<1>5. CASE exitCode' = "none"
  BY <1>5 DEF ExitExplained
<1>6. CASE f = Missing /\ c \in Required /\ exitCode' = "no_credentials"
  BY <1>3, <1>6 DEF ExitExplained
<1>7. CASE CannotMap(f) /\ exitCode' = "caught_exception"
  BY <1>3, <1>7 DEF ExitExplained, CannotMap
<1> QED BY <1>2, <1>4, <1>5, <1>6, <1>7

(* A socket that was given is empty exactly if the file was blank. *)
LEMMA SocketBlank ==
  ASSUME TypeOK, Credited("mysql-socket"), given["mysql-socket"] # Unread
  PROVE  /\ files["mysql-socket"] \in Texts /\ files["mysql-socket"] # <<>>
         /\ given["mysql-socket"] \in Texts
         /\ IsTrimmed(given["mysql-socket"], files["mysql-socket"])
         /\ given["mysql-socket"] = <<>> <=> Blank(files["mysql-socket"])
<1>1. /\ files["mysql-socket"] \in Texts /\ files["mysql-socket"] # <<>>
      /\ given["mysql-socket"] \in Texts
      /\ IsTrimmed(given["mysql-socket"], files["mysql-socket"])
  BY DEF Credited, Required
<1> QED BY <1>1, TrimmedBlank

LEMMA Initially ==
  ASSUME Init
  PROVE  IInv
<1>1. TypeOK
  <2>1. cmdline \in Seq(Args) /\ Len(cmdline) <= MaxArgs
    <3>1. PICK n \in 0..MaxArgs : cmdline \in [1..n -> Args]
      BY DEF Init
    <3>2. n \in Nat /\ n <= MaxArgs
      BY StartupAssumption
    <3> QED BY <3>1, <3>2
  <2>2. args \in [help: BOOLEAN, loglevel: Enumerators.loglevel, ssl: Enumerators.ssl]
    BY DEF Init, Default, Enumerators
  <2> QED BY <2>1, <2>2 DEF Init, TypeOK, Codes
<1>2. \A c \in Credentials : Credited(c)
  BY DEF Init, Credited
<1>3. ~args.help
  BY DEF Init
<1> QED BY <1>1, <1>2, <1>3 DEF Init, IInv, Located, ExitExplained

LEMMA Inductive ==
  ASSUME IInv, [Next]_vars
  PROVE  IInv'
<1>1. TypeOK'
  BY TypeStep DEF IInv
<1>2. CASE UNCHANGED vars
  BY <1>1, <1>2 DEF vars, IInv, Credited, Located, ExitExplained, Occurs, Parsed, Valid
<1>3. CASE ParseCmdLine
  <2>1. args'.help => Occurs("help")' # {}
    <3>1. Occurs("help")' = Occurs("help")
      BY <1>3 DEF ParseCmdLine, Occurs
    <3>2. args' = args \/ args'.help = (Occurs("help") # {})
      <4> HIDE DEF Occurs
      <4> QED BY <1>3 DEF ParseCmdLine
    <3>3. args.help => Occurs("help") # {}
      BY DEF IInv
    <3> HIDE DEF Occurs
    <3> QED BY <3>1, <3>2, <3>3
  <2>2. ExitExplained'
    BY <1>3 DEF ParseCmdLine, IInv, Exit, ExitExplained, Parsed, Valid, Occurs
  <2> QED BY <1>1, <1>3, <2>1, <2>2
          DEF ParseCmdLine, Exit, IInv, Credited, Located
<1>4. CASE MakeCred
  BY <1>1, <1>4 DEF MakeCred, Exit, IInv, Credited, Located, ExitExplained, Occurs
<1>5. CASE Run
  <2>1. ExitExplained'
    BY <1>5 DEF Run, IInv, Exit, ExitExplained, Occurs
  <2> QED BY <1>1, <1>5, <2>1 DEF Run, Exit, IInv, Credited, Located, Occurs
<1>6. ASSUME NEW c \in Credentials, GetCred(c) PROVE IInv'
  <2>1. \A d \in Credentials : Credited(d)'
    BY <1>6, GetCredCredited DEF IInv
  <2>2. phase = "load" /\ phase' \in {"load", "exited"}
    BY <1>6 DEF GetCred, Exit
  <2>3. exitCode = "none" /\ (phase' # "exited" => exitCode' = "none")
    BY <1>6, <2>2 DEF GetCred, Exit, IInv
  <2>4. ExitExplained'
    BY <1>6, <2>3, GetCredExits DEF IInv
  <2> QED BY <1>1, <1>6, <2>1, <2>2, <2>3, <2>4
          DEF GetCred, IInv, Located, Occurs
<1>7. CASE MakeInventory
  BY <1>1, <1>7 DEF MakeInventory, IInv, Credited, Located, ExitExplained, Occurs, Parsed,
                    Valid
<1>8. CASE MakeTg
  BY <1>1, <1>8 DEF MakeTg, Exit, IInv, Credited, Located, ExitExplained, Occurs
<1>9. CASE MakeDb
  <2>1. /\ files["mysql-socket"] # <<>> /\ given["mysql-socket"] \in Texts
        /\ given["mysql-socket"] = <<>> => Blank(files["mysql-socket"])
    BY <1>9, SocketBlank DEF MakeDb, IInv, Credentials
  <2>2. Located'
    <3>1. Head(given["mysql-socket"]) = given["mysql-socket"][1]
      BY <2>1, TextType
    <3> QED BY <1>9, <3>1 DEF MakeDb, Exit, Located
  <2>3. ExitExplained'
    BY <1>9, <2>1 DEF MakeDb, Exit, IInv, ExitExplained, Blank
  <2> QED BY <1>1, <1>9, <2>2, <2>3 DEF MakeDb, Exit, IInv, Credited, Occurs
<1> QED BY <1>2, <1>3, <1>4, <1>5, <1>6, <1>7, <1>8, <1>9 DEF Next

LEMMA Invariance == Spec => []IInv
<1> QED BY Initially, Inductive, PTL DEF Spec

-----------------------------------------------------------------------------
(* Every variable keeps its type, the arguments of the services included. *)
THEOREM TypeCorrect == Spec => []TypeOK
<1>1. IInv => TypeOK
  BY DEF IInv
<1> QED BY <1>1, Invariance, PTL

(* application.cpp, code.cpp: each exit code of the start-up has the causes *)
(* its description names, whatever was read first.                         *)
THEOREM ExitsExplained == Spec => []ExitExplained
<1>1. IInv => ExitExplained
  BY DEF IInv
<1> QED BY <1>1, Invariance, PTL

(* make_inventory: services that were constructed have what the            *)
(* administrator wrote, without the white space at the end of a file.      *)
THEOREM ConfiguredAsFound == Spec => []AsConfigured
<1>1. ASSUME IInv PROVE AsConfigured
  <2> SUFFICES ASSUME phase = "up" PROVE AsConfigured
    BY DEF AsConfigured
  <2> DEFINE sock == "mysql-socket"
  <2>1. \A c \in Credentials : Credited(c) /\ given[c] # Unread
    BY <1>1 DEF IInv
  <2>2. TypeOK /\ sock \in Credentials
    BY <1>1 DEF IInv, Credentials
  <2>3. /\ files[sock] \in Texts /\ given[sock] \in Texts
        /\ IsTrimmed(given[sock], files[sock])
        /\ given[sock] = <<>> <=> Blank(files[sock])
    BY <2>1, <2>2, SocketBlank
  <2>4. /\ given[sock] # <<>>
        /\ address = "unix_path" <=> given[sock][1] = Slash
    BY <1>1 DEF IInv, Located
  <2>5. given[sock][1] = files[sock][1]
    <3>1. Len(given[sock]) \in Nat /\ Len(given[sock]) # 0
      BY <2>3, <2>4, TextType
    <3>2. DOMAIN files[sock] = 1..Len(files[sock]) /\ Len(files[sock]) \in Nat
      BY <2>3, TextType
    <3> QED BY <2>3, <3>1, <3>2 DEF IsTrimmed
  <2>6. \A c \in Credentials :
           \/ files[c] = Missing /\ c \notin Required
           \/ files[c] # Missing /\ IsTrimmed(given[c], files[c])
    BY <2>1, StartupAssumption DEF Credited
  <2>7. dir = "directory" /\ ~args.help
    BY <1>1 DEF IInv
  <2> QED BY <2>3, <2>4, <2>5, <2>6, <2>7 DEF AsConfigured
<1> QED BY <1>1, Invariance, PTL
===============================================================================
