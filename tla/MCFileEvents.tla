---------------------------- MODULE MCFileEvents ----------------------------
(* A file that is deleted twice, a new directory on a volume mounted later,  *)
(* and one of Capture's own logs; the server may send an exclusion it has    *)
(* spelled wrong and one that does not compile.                              *)
EXTENDS FileEvents, TLC

Op(major, file) ==
    [major |-> major, file |-> file, process |-> "browser", naming |-> "normalized",
     filterOperation |-> FALSE, network |-> FALSE, directory |-> FALSE,
     disposition |-> "", synchronous |-> TRUE, stream |-> FALSE,
     information |-> "", device |-> "Volume1", folder |-> <<>>, share |-> <<>>]
Create(file) == [Op("CREATE", file) EXCEPT !.information = "CREATED"]
Delete(file) == [Op("SET_INFORMATION", file) EXCEPT !.disposition = "delete"]

Letters == "Volume1" :> "C:" @@ "Volume2" :> "D:"
Logs == {<<"C:", "logs", "log">>}
Doc == [Delete("doc") EXCEPT !.folder = <<"docs">>]

Operations ==
    <<{Doc, [Create("new") EXCEPT !.device = "Volume2", !.directory = TRUE],
       [Op("READ", "doc") EXCEPT !.network = TRUE]},
      {[Op("WRITE", "log") EXCEPT !.folder = <<"logs">>], [Doc EXCEPT !.naming = "opened"]},
      {Doc, [Create("doc") EXCEPT !.stream = TRUE]}>>

Lines ==
    {[excluded |-> "+", fields |-> 4, action |-> "write",
      subject |-> {"system"}, object |-> {<<"C:", "docs", "doc">>}],
     [excluded |-> "-", fields |-> 4, action |-> ".*",
      subject |-> {"browser"}, object |-> Logs]}
Sent ==
    {Exclusion("NO", "write", {"browser"}, Logs),
     Exclusion("no", "write", {"browser"}, Invalid)}
=============================================================================
