-------------------------- MODULE MCProcessEvents --------------------------
(* The browser, a program it starts and, when the browser has ended, a tool *)
(* with its id; a service runs all the time, and the tool is on a volume    *)
(* without a letter.                                                        *)
EXTENDS ProcessEvents, TLC

Programs == {"service", "browser", "loader", "tool"}
Ids == "service" :> 6 @@ "browser" :> 8 @@ "loader" :> 12 @@ "tool" :> 8
Parents == "service" :> 4 @@ "browser" :> 6 @@ "loader" :> 8 @@ "tool" :> 12
Devices == "service" :> "disk1" @@ "browser" :> "disk1" @@ "loader" :> "disk1"
               @@ "tool" :> "disk2"
Letters == "disk1" :> "C:"
Lines ==
    {[excluded |-> "+", fields |-> 4, action |-> "loader",
      subject |-> {"browser"}, object |-> {"loader"}]}
Sent == {Exclusion("yes", "tool", Invalid, {"tool"})}
=============================================================================
