----------------------------- MODULE MCDevSession -----------------------------
(* Instances of DevSession for TLC. *)
EXTENDS DevSession

Of(kind, attaches, nkeys, nedits, polling, creates) ==
    [kind |-> kind, attach |-> attaches, keys |-> nkeys, edits |-> nedits, polling |-> polling, creates |-> creates]

\* Every kind of session, but for the fsnotify watcher and created directories.
AllSessions ==
    {Of("flutter", TRUE, 0, 2, TRUE, TRUE), Of("flutter", TRUE, 1, 1, FALSE, FALSE), Of("flutter", FALSE, 0, 0, FALSE, FALSE),
     Of("kmp", TRUE, 0, 0, FALSE, FALSE), Of("reactnative", TRUE, 0, 0, FALSE, FALSE)}
OneFlutter == {Of("flutter", TRUE, 1, 0, FALSE, FALSE)}
OneKotlin == {Of("kmp", TRUE, 0, 0, FALSE, FALSE)}
Created == {Of("flutter", TRUE, 0, 1, FALSE, TRUE)}
=============================================================================
