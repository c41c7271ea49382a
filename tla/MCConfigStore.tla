----------------------------- MODULE MCConfigStore -----------------------------
(***************************************************************************)
(* Instances of ConfigStore.                                               *)
(***************************************************************************)
EXTENDS ConfigStore

CONSTANTS s

Cfg(n, sec, ok) == [settings |-> n, section |-> sec, valid |-> ok]

Empty == Cfg(0, None, FALSE)

\* The default and a valid configuration, without and with an optional section.
SomeConfigs == {Empty, Cfg(0, s, FALSE), Cfg(1, None, TRUE), Cfg(1, s, TRUE)}

\* A file without and one with the key that Config does not know, and one that does
\* not parse.
SomeEdits == {[cfg |-> Cfg(1, None, TRUE), extra |-> {}],
              [cfg |-> Cfg(1, s, TRUE), extra |-> Unknown], Broken}

\* Two configurations that differ, and the default.
PlainConfigs == {Empty, Cfg(1, None, TRUE), Cfg(2, None, TRUE)}

================================================================================
