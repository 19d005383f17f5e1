---------------------------- MODULE MCEntrypoint ----------------------------
(* The loop of one pod with a few configurations, for TLC. *)
EXTENDS Entrypoint

All(v) == [k \in Kinds |-> v]

Start == [frequency |-> All(<<5>>), flag |-> All("unset")]

\* Another poll frequency, one that is not a number, and one of 0, which
\* strconv.Atoi accepts; and a disabled kind.
Edited == [frequency |-> [k \in Kinds |-> CASE k = "capacity" -> <<7>>
                                            [] k = "performance" -> <<>>
                                            [] OTHER -> <<0>>],
           flag |-> [All("true") EXCEPT !["performance"] = "false"]]

OneSetting == {Start}
TwoSettings == {Start, Edited}
NoEdit == {}
OneEdit == {<<Start, Edited>>}

\* Faults under one configuration, or edits of it without faults.
FaultsOrEdits == {{"elector", "creds", "exporter", "cancel"}, {"edit"}}
NoFaults == {{}}
ExporterFails == {{"exporter"}}
=============================================================================
