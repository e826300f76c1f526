------------------------------- MODULE MCShell -------------------------------
(***************************************************************************)
(* Instances of Shell for TLC.                                             *)
(***************************************************************************)
EXTENDS Shell

L(cmd, args) == [cmd |-> cmd, capitals |-> TRUE, args |-> args]

DataLines ==
  {L("KEYS", << >>), L("KEYSWITHPREFIX", <<"k">>), L("KEYSWITHPREFIX", << >>), L("HAS", <<"k">>),
   L("SETEXPIRE", <<"k", "1">>), L("DELETE", <<"k">>), L("CLEAR", << >>), L("GET", <<"k">>),
   L("GETMANY", <<"k", "f">>), L("SET", <<"k", "x">>), L("SET", <<"k">>),
   L("SETNX", <<"k", "1">>), L("SETINT", <<"k", "1">>), L("SETINT", <<"k", "x">>),
   L("SETFLOAT", <<"k", "1">>), L("SETFLOAT", <<"k", "x">>), L("INCREMENTINT", <<"k", "1">>),
   L("DECREMENTINT", <<"k", "1">>), L("INCREMENTFLOAT", <<"k", "1">>),
   L("INCREMENTFLOAT", <<"k", "inf">>), L("DECREMENTFLOAT", <<"k", "1">>)}

ManyLines ==
  {L("GETLISTITEM", <<"k", "1">>), L("SETLISTITEM", <<"k", "1", "x">>), L("LISTLIMIT", <<"k", "1">>),
   L("LISTLENGTH", <<"k">>), L("LISTINSERT", <<"k", "1", "">>), L("LISTAPPEND", <<"k", "x">>),
   L("LISTHAS", <<"k", "x">>), L("LISTDELETE", <<"k", "1">>), L("LISTDELETEITEM", <<"k", "x">>),
   L("LISTPOPLEFT", <<"k">>), L("LISTPOPLEFTBLK", <<"k", "1">>), L("LISTPOPRIGHT", <<"k">>),
   L("LISTPOPRIGHTBLK", <<"k", "1">>),
   L("GETHASHFIELD", <<"k", "f">>), L("HASHHAS", <<"k", "f">>),
   L("HASHFIELDS", <<"k">>), L("HASHVALUES", <<"k">>), L("SETHASHFIELD", <<"k", "f", "x">>),
   L("DELHASHFIELD", <<"k", "f">>)}

AuthLines ==
  {L("AUTHENABLE", << >>), L("AUTHDISABLE", << >>), L("AUTHENTICATE", <<"root", "root">>),
   L("AUTHENTICATE", <<"u", "x">>), L("USERADD", <<"u", "x">>), L("USERGET", <<"u">>),
   L("USERLIST", << >>), L("USERDELETE", <<"u">>), L("USERCHANGEPASS", <<"u", "root">>),
   L("USERGRANTROLE", <<"u", "r">>), L("USERREVOKEROLE", <<"u", "r">>), L("ROLEADD", <<"r">>),
   L("ROLEGET", <<"r">>), L("ROLELIST", << >>), L("ROLEDELETE", <<"r">>),
   L("ROLEGRANTPERM", <<"r", "k*", "READ">>), L("ROLEGRANTPERM", <<"r", "kt*", "WRITE">>),
   L("ROLEGRANTPERM", <<"r", "t*", "WRITE">>), L("ROLEGRANTPERM", <<"r", "k", "ALL">>),
   L("ROLEREVOKEPERM", <<"r", "k*", "READ">>)}

TalkLines ==
  {L("QUIT", << >>), L("HELP", << >>), L("LOCK", <<"k">>), L("WATCH", <<"k">>), L("UNWATCH", << >>),
   L("SETLOCKTIMEOUT", <<"1">>), L("SETLOCKTIMEOUT", <<"x">>),
   [cmd |-> "KEYS", capitals |-> FALSE, args |-> << >>]}

AllLines == DataLines \cup ManyLines \cup AuthLines \cup TalkLines

Words == [w \in {"1"} |-> 1]
Numbers == Words @@ ("inf" :> Half)

\* Bytes from 0 to 3; 3 is the largest and 1 is '*'.
Spellings == ("k" :> <<2>>) @@ ("k*" :> <<2, 1>>) @@ ("kt*" :> <<2, 3, 1>>) @@ ("t*" :> <<3, 1>>)
SomeNames == {<< >>, <<0>>, <<1>>, <<2>>, <<3>>, <<2, 0>>, <<2, 1>>, <<2, 2>>, <<2, 3>>, <<3, 0>>,
              <<3, 3>>, <<2, 3, 0>>, <<2, 3, 3>>}

\* The user root alone, and authentication that has been enabled, with another user.
SetUp   == [enabled |-> FALSE,
            users   |-> [u \in {"root"} |-> [pass |-> "root", roles |-> {"root"}]],
            roles   |-> [r \in {"root"} |-> {}]]
Running == [enabled |-> TRUE,
            users   |-> ("u" :> [pass |-> "x", roles |-> {"r"}]) @@ SetUp.users,
            roles   |-> ("r" :> {GetPermission(<<2, 1>>, "READ")}) @@ SetUp.roles]
AllStarts == {<<"argv", Running>>, <<"pipe", SetUp>>, <<"tty", SetUp>>, <<"tty", Running>>}

M(method) == [Arguments EXCEPT !.method = method, !.key = "k"]
GoSets(v) == [M("Set") EXCEPT !.v = v]
AllUses ==
  {GoSets(v) : v \in {GoBool(TRUE), GoFloat(-1), GoTime(3), GoDuration(-2),
                      GoStrings(<<"x", "">>), GoMap([f \in {"f"} |-> "x"]), GoString(""),
                      GoError("broken")}}
   \cup {M("Length"), M("ListPopLeftBlock"), M("LogOut"),
         [M("SetHashFields") EXCEPT !.map = [f \in {"f"} |-> GoError("broken")]],
         [M("SetLockTimeout") EXCEPT !.n = 0],
         [M("UserGet") EXCEPT !.name = "root"],
         [M("Authenticate") EXCEPT !.name = "root", !.pass = "root"]}
=============================================================================
