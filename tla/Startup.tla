-------------------------------- MODULE Startup --------------------------------
(***************************************************************************)
(* From main to the first asynchronous operation: the command line is      *)
(* parsed, the directory of systemd credentials is found, credentials are  *)
(* read as the arguments of make_inventory, in an order the language       *)
(* leaves open, and the services are constructed from them.  Any of it may *)
(* throw, and main turns what was thrown into the exit code.               *)
(***************************************************************************)
EXTENDS Naturals, Sequences

CONSTANTS
  Chars,      \* what a credential is made of
  White,      \* the one that stands for white space
  Slash,
  MaxLength,  \* bound: characters in a credential
  MaxArgs,    \* bound: options on the command line
  OsUser,     \* the name getpwuid knows the process by
  Missing,    \* no regular file of that name
  Unreadable, \* a file that cannot be examined, or not opened and mapped
  Unread

Texts == UNION {[1..n -> Chars] : n \in 0..MaxLength}

ASSUME StartupAssumption ==
  /\ White \in Chars /\ Slash \in Chars
  /\ MaxLength \in Nat /\ MaxArgs \in Nat
  /\ {OsUser, Missing, Unreadable, Unread} \cap Texts = {}
  /\ Missing # Unreadable /\ Unread \notin {OsUser, Missing, Unreadable}

VARIABLES
  phase,    \* what comes next
  cmdline,  \* the options given, in order
  args,     \* the variables_map made of them
  dir,      \* CREDENTIALS_DIRECTORY
  files,    \* what was found under the name of each credential
  given,    \* the arguments of make_inventory
  address,  \* the server_address of service::db
  exitCode

vars == <<phase, cmdline, args, dir, files, given, address, exitCode>>

Credentials == {"telegram-token", "mysql-user", "mysql-password", "mysql-socket"}

Required == {"telegram-token", "mysql-socket"}

(* Some of the enumerators, the default, and a word that is none of them. *)
Enumerators == [loglevel |-> {"info", "off"}, ssl |-> {"require", "disable"}]

Args == [opt: {"help", "unknown"}, val: {""}]
          \cup [opt: {"loglevel", "ssl"}, val: {"info", "off", "require", "disable"}]

Default == [loglevel |-> "info", ssl |-> "require"]

Files == Texts \cup {Missing, Unreadable}

Codes == {"none", "ok", "caught_exception", "bad_cmdline_option", "no_credentials",
          "aborted"}

TypeOK ==
  /\ phase \in {"parse", "creds", "run", "load", "tg", "db", "up", "exited"}
  /\ cmdline \in Seq(Args) /\ Len(cmdline) <= MaxArgs
  /\ args \in [help: BOOLEAN, loglevel: Enumerators.loglevel, ssl: Enumerators.ssl]
  /\ dir \in {"unset", "file", "directory", "denied", Unread}
  /\ files \in [Credentials -> Files \cup {Unread}]
  /\ given \in [Credentials -> Texts \cup {OsUser, Unread}]
  /\ address \in {"none", "unix_path", "host_and_port"}
  /\ exitCode \in Codes

Init ==
  /\ phase = "parse"
  /\ \E n \in 0..MaxArgs : cmdline \in [1..n -> Args]
  /\ args = [help |-> FALSE, loglevel |-> Default.loglevel, ssl |-> Default.ssl]
  /\ dir = Unread
  /\ files = [c \in Credentials |-> Unread]
  /\ given = [c \in Credentials |-> Unread]
  /\ address = "none" /\ exitCode = "none"

Exit(code) ==
  /\ phase' = "exited"
  /\ exitCode' = code

-----------------------------------------------------------------------------
(* The constructor of application. *)

Occurs(opt) == {i \in DOMAIN cmdline : cmdline[i].opt = opt}

(* Mutated: any word will do. *)
ValidOnce(opt) == \A i, j \in Occurs(opt) : i = j

(* enum_validator: one occurrence, the name of an enumerator. *)
Valid(opt) ==
  /\ \A i, j \in Occurs(opt) : i = j
  /\ \A i \in Occurs(opt) : cmdline[i].val \in Enumerators[opt]

Parsed ==
  /\ Occurs("unknown") = {}
  /\ \A i, j \in Occurs("help") : i = j
  /\ Valid("loglevel") /\ Valid("ssl")

Value(opt) ==
  IF Occurs(opt) = {} THEN Default[opt] ELSE cmdline[CHOOSE i \in Occurs(opt) : TRUE].val

ParseCmdLine ==
  /\ phase = "parse"
  /\ \/ /\ Parsed
        /\ args' = [help |-> Occurs("help") # {}, loglevel |-> Value("loglevel"),
                    ssl |-> Value("ssl")]
        /\ phase' = "creds"
        /\ UNCHANGED exitCode
     \/ /\ ~Parsed
        /\ Exit("caught_exception")
        /\ UNCHANGED args
  /\ UNCHANGED <<cmdline, dir, files, given, address>>

(* is_directory throws of a path that cannot be examined.                  *)
MakeCred ==
  /\ phase = "creds"
  /\ dir' \in {"unset", "file", "directory", "denied"}
  /\ \/ /\ dir' = "directory"
        /\ phase' = "run"
        /\ UNCHANGED exitCode
     \/ /\ dir' \in {"unset", "file"}
        /\ Exit("no_credentials")
     \/ /\ dir' = "denied"
        /\ Exit("caught_exception")
  /\ UNCHANGED <<cmdline, args, files, given, address>>

-----------------------------------------------------------------------------
(* application::run *)

Run ==
  /\ phase = "run"
  /\ \/ args.help /\ Exit("ok")
     \/ ~args.help /\ phase' = "load" /\ UNCHANGED exitCode
  /\ UNCHANGED <<cmdline, args, dir, files, given, address>>

(* Mutated: one character of white space is taken off. *)
TrimmedOnce(s) ==
  IF s # <<>> /\ s[Len(s)] = White THEN SubSeq(s, 1, Len(s) - 1) ELSE s

(* credential::end: white space is taken off the end. *)
Trimmed(s) ==
  LET solid == {0} \cup {i \in DOMAIN s : s[i] # White} IN
    SubSeq(s, 1, CHOOSE n \in solid : \A i \in solid : i <= n)

(* Mutated: a default must not be empty. *)
SolidDefaults == [c \in {"mysql-user"} |-> {OsUser}]

(* What stands for a credential that is not there; the system may not know *)
(* the name of the user.                                                   *)
Defaults == [c \in {"mysql-user", "mysql-password"} |->
               IF c = "mysql-user" THEN {OsUser, <<>>} ELSE {<<>>}]

(* An empty file cannot be mapped. *)
CannotMap(f) == f \in {Unreadable, <<>>}

GetCred(c) ==
  /\ phase = "load" /\ given[c] = Unread
  /\ \E f \in Files :
       /\ files' = [files EXCEPT ![c] = f]
       /\ \/ /\ f = Missing /\ c \in DOMAIN Defaults
             /\ \E t \in Defaults[c] : given' = [given EXCEPT ![c] = t]
             /\ UNCHANGED <<phase, exitCode>>
          \/ /\ f = Missing /\ c \notin DOMAIN Defaults
             /\ Exit("no_credentials")
             /\ UNCHANGED given
          \/ /\ CannotMap(f)
             /\ Exit("caught_exception")
             /\ UNCHANGED given
          \/ /\ f # Missing /\ ~CannotMap(f)
             /\ given' = [given EXCEPT ![c] = Trimmed(f)]
             /\ UNCHANGED <<phase, exitCode>>
  /\ UNCHANGED <<cmdline, args, dir, address>>

-----------------------------------------------------------------------------
(* make_inventory *)

MakeInventory ==
  /\ phase = "load"
  /\ \A c \in Credentials : given[c] # Unread
  /\ phase' = "tg"
  /\ UNCHANGED <<cmdline, args, dir, files, given, address, exitCode>>

(* The constructor of tg asserts that the token is not empty and does not  *)
(* end in a newline; a build with NDEBUG looks at neither.                 *)
MakeTg ==
  /\ phase = "tg"
  /\ \/ phase' = "db" /\ UNCHANGED exitCode
     \/ given["telegram-token"] = <<>> /\ Exit("aborted")
  /\ UNCHANGED <<cmdline, args, dir, files, given, address>>

(* parse_mysql_address, then user_dialog and the call of async_init. *)
MakeDb ==
  /\ phase = "db"
  /\ LET socket == given["mysql-socket"] IN
       \/ /\ socket = <<>>
          /\ Exit("bad_cmdline_option")
          /\ UNCHANGED address
       \/ /\ socket # <<>>
          /\ address' = IF Head(socket) = Slash THEN "unix_path"
                                              ELSE "host_and_port"
          /\ phase' = "up"
          /\ UNCHANGED exitCode
  /\ UNCHANGED <<cmdline, args, dir, files, given>>

Next ==
  \/ ParseCmdLine \/ MakeCred \/ Run
  \/ \E c \in Credentials : GetCred(c)
  \/ MakeInventory \/ MakeTg \/ MakeDb

Spec == Init /\ [][Next]_vars

-----------------------------------------------------------------------------
Blank(s) == \A i \in DOMAIN s : s[i] = White

(* What each exit code lets an administrator conclude, whatever the order  *)
(* in which the credentials were read: 3, one that has no default is not   *)
(* there (a mysql-user or a password is never asked for); 2, the socket is *)
(* blank, which is the one option given as a credential; 0, help was asked *)
(* for; 1, the command line, a directory that cannot be examined, or a     *)
(* file that is there but cannot be read.                                  *)
ExitExplained ==
  /\ exitCode = "no_credentials" =>
       dir \in {"unset", "file"} \/ \E c \in Required : files[c] = Missing
  /\ exitCode = "bad_cmdline_option" =>
       files["mysql-socket"] # <<>> /\ Blank(files["mysql-socket"])
  /\ exitCode = "ok" => \E i \in DOMAIN cmdline : cmdline[i].opt = "help"
  /\ exitCode = "caught_exception" =>
       ~Parsed \/ dir = "denied" \/ \E c \in Credentials : files[c] \in {Unreadable, <<>>}

(* `value' is what is left of `file' without the white space at its end. *)
IsTrimmed(value, file) ==
  /\ Len(value) <= Len(file)
  /\ \A i \in DOMAIN file :
       IF i <= Len(value) THEN value[i] = file[i] ELSE file[i] = White
  /\ value # <<>> => value[Len(value)] # White

(* The services work with what the credentials hold: a default stands for  *)
(* a credential that is not there and never for one that is, be it blank,  *)
(* and the server is looked for in the file system exactly if the socket   *)
(* is an absolute path.                                                    *)
AsConfigured ==
  phase = "up" =>
    /\ dir = "directory" /\ ~args.help
    /\ \A c \in Credentials :
         \/ files[c] = Missing /\ c \notin Required
         \/ files[c] # Missing /\ IsTrimmed(given[c], files[c])
    /\ ~Blank(files["mysql-socket"])
    /\ address = "unix_path" <=> files["mysql-socket"][1] = Slash

(* "assert(!conn_.get_token().empty())" *)
TokenNotEmpty ==
  phase = "up" \/ exitCode = "aborted" => given["telegram-token"] # <<>>
===============================================================================
