-------------------------------- MODULE Shell --------------------------------
(***************************************************************************)
(* The command-line program (cli/cli.go) next to another program that uses *)
(* the client library.                                                     *)
(*                                                                         *)
(* A line has a command, whether it is written in capitals, and arguments. *)
(* The program is given one command as its arguments, or reads lines, from *)
(* a terminal or from a pipe.  Which line it is that was typed is chosen   *)
(* when it is read.                                                        *)
(***************************************************************************)
EXTENDS Client, KeyRange

CONSTANTS Lines,     \* the lines that a user types
          ParseInt,  \* the words that read as an integer, and which
          ParseFloat,
          Spelling,  \* the bytes of names that permissions are about
          OtherNames, \* names that they may or may not be about
          Starts,    \* the ways the program is started, and the users there are then
          Uses,      \* the methods that the other program calls
          MaxLines, MaxUses
ASSUME LinesAssumption == /\ MaxLines \in Nat /\ MaxUses \in Nat
                          /\ \A s \in Starts : s[1] \in {"argv", "tty", "pipe"}
                          /\ {"cli", "go"} \subseteq Clients
ASSUME SpellingAssumption == /\ \A w \in DOMAIN Spelling : Spelling[w] \in Seq(Byte)
                             /\ OtherNames \subseteq Seq(Byte)

VARIABLES way,   \* "argv", "tty", "pipe", or "exited"
          read,  \* lines that were read, whatever became of them
          ran,   \* lines that were run
          line,  \* the line that is being run
          did,   \* the command that is run has changed what the service keeps
          shown, \* what the last command has come to
          used   \* calls of the other program

vars == <<clientVars, way, read, ran, line, did, shown, used>>

Cli == "cli"
Go  == "go"
NoLine == [cmd |-> "none", capitals |-> TRUE, args |-> << >>]

-----------------------------------------------------------------------------
(* The commands: the method of each, and which argument is which argument  *)
(* of the method.                                                          *)

None == [x \in {} |-> 0]
At(method, at) == [method |-> method, at |-> at]

KeyCommands ==
  [KEYS           |-> At("Keys", None),
   KEYSWITHPREFIX |-> At("KeysWithPrefix", [key |-> 1]),
   HAS            |-> At("Has", [key |-> 1]),
   SETEXPIRE      |-> At("SetExpire", [key |-> 1, n |-> 2]),
   DELETE         |-> At("Delete", [key |-> 1]),
   CLEAR          |-> At("Clear", None)]

ByteCommands ==
  [GET     |-> At("Get", [key |-> 1]),
   GETMANY |-> At("GetMany", [keys |-> 1]),
   SET     |-> At("Set", [key |-> 1, string |-> 2]),
   SETNX   |-> At("SetNX", [key |-> 1, string |-> 2])]

NumberCommands ==
  [SETINT         |-> At("Set", [key |-> 1, int |-> 2]),
   SETFLOAT       |-> At("Set", [key |-> 1, float |-> 2]),
   INCREMENTINT   |-> At("IncrementInt", [key |-> 1, n |-> 2]),
   DECREMENTINT   |-> At("DecrementInt", [key |-> 1, n |-> 2]),
   INCREMENTFLOAT |-> At("IncrementFloat", [key |-> 1, x |-> 2]),
   DECREMENTFLOAT |-> At("DecrementFloat", [key |-> 1, x |-> 2])]

ListCommands ==
  [GETLISTITEM    |-> At("GetListItem", [key |-> 1, n |-> 2]),
   SETLISTITEM    |-> At("SetListItem", [key |-> 1, n |-> 2, string |-> 3]),
   LISTLIMIT      |-> At("ListLimit", [key |-> 1, n |-> 2]),
   LISTLENGTH     |-> At("ListLength", [key |-> 1]),
   LISTINSERT     |-> At("ListInsert", [key |-> 1, n |-> 2, string |-> 3]),
   LISTAPPEND     |-> At("ListAppend", [key |-> 1, string |-> 2]),
   LISTHAS        |-> At("ListHas", [key |-> 1, string |-> 2]),
   LISTDELETE     |-> At("ListDelete", [key |-> 1, n |-> 2]),
   LISTDELETEITEM |-> At("ListDeleteItem", [key |-> 1, string |-> 2])]

PopCommands ==
  [LISTPOPLEFT     |-> At("ListPopLeft", [key |-> 1]),
   LISTPOPLEFTBLK  |-> At("ListPopLeftBlock", [key |-> 1, n |-> 2]),
   LISTPOPRIGHT    |-> At("ListPopRight", [key |-> 1]),
   LISTPOPRIGHTBLK |-> At("ListPopRightBlock", [key |-> 1, n |-> 2])]

\* Of SETHASHFIELD the second argument is the key and the field.
HashCommands ==
  [GETHASHFIELD |-> At("GetHashField", [key |-> 1, field |-> 2]),
   HASHHAS      |-> At("HashHas", [key |-> 1, field |-> 2]),
   HASHFIELDS   |-> At("HashFields", [key |-> 1]),
   HASHVALUES   |-> At("HashValues", [key |-> 1]),
   SETHASHFIELD |-> At("SetHashField", [key |-> 2, field |-> 2, string |-> 3]),
   DELHASHFIELD |-> At("DelHashField", [key |-> 1, field |-> 2])]

UserCommands ==
  [AUTHENABLE     |-> At("AuthEnable", None),
   AUTHDISABLE    |-> At("AuthDisable", None),
   AUTHENTICATE   |-> At("Authenticate", [name |-> 1, pass |-> 2]),
   USERADD        |-> At("UserAdd", [name |-> 1, pass |-> 2]),
   USERGET        |-> At("UserGet", [name |-> 1]),
   USERLIST       |-> At("UserList", None),
   USERDELETE     |-> At("UserDelete", [name |-> 1]),
   USERCHANGEPASS |-> At("UserChangePassword", [name |-> 1, pass |-> 2]),
   USERGRANTROLE  |-> At("UserGrantRole", [name |-> 1, role |-> 2]),
   USERREVOKEROLE |-> At("UserRevokeRole", [name |-> 1, role |-> 2])]

RoleCommands ==
  [ROLEADD    |-> At("RoleAdd", [role |-> 1]),
   ROLEGET    |-> At("RoleGet", [role |-> 1]),
   ROLELIST   |-> At("RoleList", None),
   ROLEDELETE |-> At("RoleDelete", [role |-> 1]),
   ROLEGRANTPERM  |-> At("RoleGrantPermission", [role |-> 1, name |-> 2, perm |-> 3]),
   ROLEREVOKEPERM |-> At("RoleRevokePermission", [role |-> 1, name |-> 2, perm |-> 3])]

\* Commands that do nothing at the service, with the arguments they need.
LocalCommands == [QUIT |-> 0, HELP |-> 0, SETLOCKTIMEOUT |-> 1, WATCH |-> 1, UNWATCH |-> 1]

CommandTables == {KeyCommands, ByteCommands, NumberCommands, ListCommands, PopCommands,
                  HashCommands, UserCommands, RoleCommands}
Commands == Entries(CommandTables)

-----------------------------------------------------------------------------
(* From a line to a method call.                                           *)

\* Only a line that was read is put in capitals.
Known(l) == (l.capitals \/ way # "argv") /\ l.cmd \in DOMAIN Commands \cup DOMAIN LocalCommands

\* KEYSWITHPREFIX does without its argument.
Needs(l) == CASE l.cmd \in DOMAIN LocalCommands -> LocalCommands[l.cmd]
              [] l.cmd = "KEYSWITHPREFIX"       -> 0
              [] OTHER -> Max({0} \cup Range(Commands[l.cmd].at))

ArgumentOf(l, x) == l.args[Commands[l.cmd].at[x]]
Takes(l, x) == x \in DOMAIN Commands[l.cmd].at

\* What makes a command fail before anything is sent.
Mistake(l) ==
  IF ~Known(l) THEN "unknown"
  ELSE IF Len(l.args) < Needs(l) THEN "usage"
  ELSE IF l.cmd = "SETLOCKTIMEOUT" /\ l.args[1] \notin DOMAIN ParseInt THEN "number"
  ELSE IF l.cmd \in DOMAIN LocalCommands THEN "none"
  ELSE IF l.cmd = "KEYSWITHPREFIX" /\ l.args = << >> THEN "prefix" \* etcd takes no empty name
  ELSE IF \/ \E x \in {"n", "int"} : Takes(l, x) /\ ArgumentOf(l, x) \notin DOMAIN ParseInt
          \/ \E x \in {"x", "float"} : Takes(l, x) /\ ArgumentOf(l, x) \notin DOMAIN ParseFloat
       THEN "number"
  ELSE IF Takes(l, "perm") /\ ArgumentOf(l, "perm") \notin PermTypes THEN "permType"
  ELSE "none"

\* A method's arguments, those that it does not take included.
Arguments == [method |-> "none", key |-> ZeroKey, n |-> 0, v |-> GoOther, field |-> "none",
              fields |-> {}, keys |-> {}, map |-> EmptyMap, name |-> "none", pass |-> "none",
              role |-> "none", perm |-> [key |-> Zero, end |-> Zero, type |-> "none"]]

CallOf(l) ==
  LET arg(x, otherwise) == IF Takes(l, x) THEN ArgumentOf(l, x) ELSE otherwise
  IN  [Arguments EXCEPT
         !.method = Commands[l.cmd].method,
         !.key    = arg("key", @),
         !.n      = IF Takes(l, "n") THEN ParseInt[ArgumentOf(l, "n")]
                    ELSE IF Takes(l, "x") THEN ParseFloat[ArgumentOf(l, "x")] ELSE @,
         !.v      = CASE Takes(l, "string") -> GoString(ArgumentOf(l, "string"))
                      [] Takes(l, "int")    -> GoInt(ParseInt[ArgumentOf(l, "int")])
                      [] Takes(l, "float")  -> GoFloat(ParseFloat[ArgumentOf(l, "float")])
                      [] OTHER              -> @,
         !.field  = arg("field", @),
         !.keys   = IF Takes(l, "keys") THEN Range(l.args) ELSE @,
         !.name   = arg("name", @),
         !.pass   = arg("pass", @),
         !.role   = arg("role", @),
         !.perm   = IF Takes(l, "perm")
                    THEN GetPermission(Spelling[ArgumentOf(l, "name")], ArgumentOf(l, "perm"))
                    ELSE @]

-----------------------------------------------------------------------------
(* What may be typed and called, and what users there may be at the start. *)

\* The words of a line are keys, values, fields and names where a command takes them.
WordsFit(l) ==
  /\ l.args \in Seq(Range(l.args))
  /\ l.cmd \in DOMAIN Commands =>
       \A x \in DOMAIN Commands[l.cmd].at :
         LET i == Commands[l.cmd].at[x]
         IN  i \in 1 .. Len(l.args) =>
               /\ x = "key"    => l.args[i] \in Bases
               /\ x = "string" => l.args[i] \in Items
               /\ x = "field"  => l.args[i] \in Fields
               /\ x = "keys"   => Range(l.args) \subseteq Bases
               /\ x = "name" /\ Takes(l, "perm") => l.args[i] \in DOMAIN Spelling

ASSUME WordsAssumption == /\ \A w \in DOMAIN ParseInt : ParseInt[w] \in Int64
                          /\ \A w \in DOMAIN ParseFloat : ParseFloat[w] \in Floats
                          /\ \A l \in Lines : WordsFit(l)

\* A permission as GetPermission makes them.
Spelt(p) == \E w \in DOMAIN Spelling : GetKeyPrefix(Spelling[w]) = <<p.key, p.end>>

ASSUME UsesAssumption ==
  \A m \in Uses : /\ m.method # "none" /\ ArgumentsFit(m)
                  /\ m.method = "RoleGrantPermission" => Spelt(m.perm)

\* Users have roles that exist, or the one that etcd reserves, and roles have
\* permissions for names that are spelt.
RolesExist(a) == \A u \in DOMAIN a.users : a.users[u].roles \subseteq DOMAIN a.roles \cup {Root}
RolesSpelt(a) == \A r \in DOMAIN a.roles : \A p \in a.roles[r] : Spelt(p)
AuthRecord(a) ==
  /\ a = [enabled |-> a.enabled, users |-> a.users, roles |-> a.roles]
  /\ \A u \in DOMAIN a.users :
       a.users[u] = [pass |-> a.users[u].pass, roles |-> a.users[u].roles]

ASSUME StartsAssumption ==
  \A s \in Starts : /\ AuthRecord(s[2]) /\ s[2].enabled \in BOOLEAN
                    /\ RolesExist(s[2]) /\ RolesSpelt(s[2])

-----------------------------------------------------------------------------
(* Reading and running lines.                                              *)

\* Each prompt makes a new buffered reader, which takes all that a pipe holds, or
\* part of it, and is dropped with what it holds after the first line.
Reads(n) == n \in 1 .. MaxLines - read /\ (way = "tty" => n = 1)

NextLine == /\ way \in {"tty", "pipe"}
            /\ \E n \in 1 .. MaxLines : Reads(n) /\ read' = read + n
            /\ ran' = ran + 1

\* What comes next: the program's arguments, or a line that is read.
NextCommand == \/ way = "argv" /\ ran = 0 /\ ran' = 1 /\ UNCHANGED read
               \/ NextLine

\* With a command as its arguments the program exits when it is done.
Afterwards == IF way = "argv" THEN "exited" ELSE way

Comes(result) == /\ shown' = result /\ way' = Afterwards
                 /\ line' = NoLine

\* An empty line brings the next prompt.
BlankLine ==
  /\ doing[Cli] = Idle /\ NextLine
  /\ UNCHANGED <<clientVars, way, line, did, shown, used>>

Fails(l) ==
  /\ doing[Cli] = Idle /\ NextCommand
  /\ Mistake(l) # "none" /\ Comes(Mistake(l))
  /\ did' = FALSE /\ UNCHANGED <<clientVars, used>>

\* Help, and watching, of which module ClientWatch says what comes of it.
Talks(l) ==
  /\ doing[Cli] = Idle /\ NextCommand
  /\ Mistake(l) = "none" /\ l.cmd \in {"HELP", "WATCH", "UNWATCH"} /\ Comes("ok")
  /\ did' = FALSE /\ UNCHANGED <<clientVars, used>>

Quits(l) ==
  /\ doing[Cli] = Idle /\ NextCommand
  /\ Mistake(l) = "none" /\ l.cmd = "QUIT"
  /\ way' = "exited" /\ shown' = "ok"
  /\ UNCHANGED <<clientVars, line, did, used>>

SetsLockTimeout(l) ==
  /\ doing[Cli] = Idle /\ NextCommand
  /\ Mistake(l) = "none" /\ l.cmd = "SETLOCKTIMEOUT" /\ Comes("ok")
  /\ SetLockTimeout(Cli, ParseInt[l.args[1]])
  /\ did' = FALSE /\ UNCHANGED used

Runs(l) ==
  /\ doing[Cli] = Idle /\ NextCommand
  /\ Mistake(l) = "none" /\ l.cmd \in DOMAIN Commands
  /\ Invoke(Cli, CallOf(l)) \/ InvokeAuth(Cli, CallOf(l))
  /\ line' = l /\ shown' = "none" /\ did' = FALSE
  /\ UNCHANGED <<way, used>>

\* Mutant: other commands, too, end as SETNX does.
OutcomeFallsThrough(l, ret) ==
  IF IsOutage(ret) THEN "outage"
  ELSE IF Failed(ret) THEN "error"
  ELSE CASE l.cmd = "SETNX"  -> "usage after all"
         [] l.cmd = "SETINT" -> "usage"
         [] OTHER            -> "ok"

\* SETNX, when all went well, says that there were not enough arguments.
Outcome(l, ret) ==
  IF IsOutage(ret) THEN "outage"
  ELSE IF Failed(ret) THEN "error"
  ELSE IF l.cmd = "SETNX" THEN "usage after all"
  ELSE "ok"

Answered ==
  /\ \/ doing[Cli].method \notin AuthOps /\ Returns(Cli)
     \/ ReturnsAuth(Cli) \/ Authenticated(Cli) \/ NotAuthenticated(Cli)
  /\ Comes(Outcome(line, Returned(doing[Cli], answer[Cli])))
  /\ UNCHANGED <<read, ran, did, used>>

Waits ==
  /\ \/ (Served(Cli) \/ ServedAuth(Cli)) /\ did' = (store' # store \/ auth' # auth)
     \/ (NotServed(Cli) \/ NotServedAuth(Cli) \/ Denied(Cli)) /\ UNCHANGED did
  /\ UNCHANGED <<way, read, ran, line, shown, used>>

-----------------------------------------------------------------------------
(* The other program.                                                      *)

OwnVars == <<way, read, ran, line, did, shown>>

Uses1(m) == /\ used < MaxUses /\ used' = used + 1
            /\ UNCHANGED OwnVars
            /\ \/ ValueFails(Go, m) \/ Invoke(Go, m) \/ InvokeAuth(Go, m)
               \/ m.method = "LogOut" /\ LogOut(Go)
               \/ m.method = "SetLockTimeout" /\ SetLockTimeout(Go, m.n)
GoProceeds == Proceeds(Go) /\ UNCHANGED <<OwnVars, used>>
Expires(k) == Expire(k) /\ UNCHANGED <<OwnVars, used>>

-----------------------------------------------------------------------------

Init == /\ ClientInit /\ \E s \in Starts : way = s[1] /\ auth = s[2]
        /\ read = 0 /\ ran = 0
        /\ line = NoLine /\ did = FALSE /\ shown = "none" /\ used = 0

Next == \/ BlankLine \/ Answered \/ Waits \/ GoProceeds
        \/ \E l \in Lines : Fails(l) \/ Talks(l) \/ Quits(l) \/ SetsLockTimeout(l) \/ Runs(l)
        \/ \E m \in Uses : Uses1(m)
        \/ \E k \in Keys : Expires(k)

Spec == Init /\ [][Next]_vars

-----------------------------------------------------------------------------
(* Properties.                                                             *)

\* The requests under way are ones that the service takes, the keys hold values,
\* and what is being run is a line that was typed.
ShellTypeOK ==
  /\ store \in [Keys -> Values]
  /\ \A p \in Clients : call[p] # NoCall => call[p].op \in AuthOps \/ WellFormed(call[p])
  /\ doing[Cli] # Idle => line \in Lines /\ doing[Cli] = CallOf(line)
  /\ ran <= read \/ way \in {"argv", "exited"}
  /\ auth.enabled \in BOOLEAN
  /\ RolesExist(auth)

\* A command that reports that it failed has not changed what the service keeps:
\* only of a call that was cut off can one not tell.  (SETNX reports a failure
\* whenever it did not fail.)
FailsClean == shown \in {"error", "usage", "number", "permType", "prefix", "unknown"} => ~did

\* A permission for a name that ends in '*' is one for the names that begin with
\* what is before it, and for no others.
PatternsCover ==
  \A r \in DOMAIN auth.roles : \A p \in auth.roles[r] :
    \E w \in DOMAIN Spelling :
      /\ GetKeyPrefix(Spelling[w]) = <<p.key, p.end>>
      /\ IsPattern(Spelling[w]) => CoversPattern(Spelling[w], OtherNames)
=============================================================================
