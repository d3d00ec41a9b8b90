-------------------------------- MODULE Tables --------------------------------
(* Python dictionaries and database tables as functions on their keys. *)

(* dict[key] = entry, INSERT OR REPLACE: the entry of one key, new or not. *)
With(table, key, entry) ==
  [k \in DOMAIN table \cup {key} |-> IF k = key THEN entry ELSE table[k]]
(* Entries are only added where there are none yet.                        *)
Extended(table, more) ==
  [key \in DOMAIN table \cup DOMAIN more |-> IF key \in DOMAIN table THEN table[key] ELSE more[key]]
=============================================================================
