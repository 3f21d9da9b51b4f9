-------------------------- MODULE MCRegistryEvents --------------------------
(* Operations that make an event of one unit, one that fills the buffer and  *)
(* one that is larger than it, and two that make none.  The paths are those  *)
(* of the user's classes, of the user, and a name cut short.                 *)
EXTENDS RegistryEvents

Op(kind, success, complete, queried, value, data) ==
    [kind |-> kind, success |-> success, object |-> TRUE, complete |-> complete,
     queried |-> queried, value |-> value, data |-> data]

Parts == {"REGISTRY", "Registry", "%", "TRY", "MACHINE", "Machine", "USER", "sid",
          "_CLASSES", "HKCR", "HKCU", "HKLM", "HKU", "key", "value"}
Classes == User \o <<"_CLASSES", "key">>
Open(complete, queried) ==
    Op("RegNtPostOpenKey", TRUE, complete, queried, "", 0)
SetValue(data) ==
    Op("RegNtPreSetValueKey", TRUE, NoPath, User \o <<"key">>, "value", data)

Ignored ==
    {[Open(<<"TRY", "key">>, NoPath) EXCEPT !.object = FALSE],
     [Open(Classes, NoPath) EXCEPT !.success = FALSE]}
Requests ==
    <<{Open(<<"key">>, Classes)} \cup Ignored,
      {SetValue(1), SetValue(2)} \cup Ignored,
      {Open(<<"Registry", "Machine", "key">>, NoPath)} \cup Ignored>>
=============================================================================
