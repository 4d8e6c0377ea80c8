------------------------------- MODULE KvDisk -------------------------------
(***************************************************************************)
(* The Storage seam of modules/kv (src/root.zig, Storage; src/sim.zig,     *)
(* SimStorage): files whose content is durable up to the last sync, and a  *)
(* directory whose changes are durable from the next syncDir on.           *)
(*                                                                         *)
(* A disk is a record                                                      *)
(*   names  the namespace the running process sees: name -> file           *)
(*   dirs   the namespaces a power loss may leave: the one of the last     *)
(*          syncDir and each one since (a prefix of the directory changes) *)
(*   files  file -> [data, synced]: its blocks, and how many of them the   *)
(*          last sync covers                                               *)
(* A block is one write of the store: a header, a record, a manifest or a  *)
(* hint.  Bytes, lengths and CRCs are abstracted: a write that reached the *)
(* medium in part is the block Torn, which every check refuses.            *)
(***************************************************************************)
EXTENDS Naturals, Sequences, FiniteSets, Functions

Path        == <<"path", 0>>
CompactTmp  == <<"compact", 0>>
ManifestTmp == <<"manifest", 0>>
DataName(id) == <<"data", id>>
HintName(id) == <<"hint", id>>

Torn == [op |-> "torn"]

EmptyDisk ==
  LET none == [n \in {} |-> 0]
  IN  [names |-> none, dirs |-> {none}, files |-> [f \in {} |-> <<>>]]

Exists(d, n) == n \in DOMAIN d.names

FileOf(d, n) == d.names[n]

(* The blocks under a name, none if it is absent. *)
Content(d, n) == IF Exists(d, n) THEN d.files[d.names[n]].data ELSE <<>>

EmptyFile == [data |-> <<>>, synced |-> 0]

FreshFile(d) == CHOOSE f \in 1..(Cardinality(DOMAIN d.files) + 1) : f \notin DOMAIN d.files

(* Every directory change is visible at once and durable at the next syncDir. *)
SetNames(d, names) == [d EXCEPT !.names = names, !.dirs = @ \union {names}]

SetFile(d, f, file) ==
  [d EXCEPT !.files = [g \in DOMAIN d.files \union {f} |-> IF g = f THEN file ELSE d.files[g]]]

(* open with .open_or_create *)
OpenOrCreate(d, n) ==
  IF Exists(d, n) THEN d
  ELSE LET f == FreshFile(d)
       IN  SetNames(SetFile(d, f, EmptyFile),
                    [m \in DOMAIN d.names \union {n} |-> IF m = n THEN f ELSE d.names[m]])

(* open with .create_truncate *)
CreateTruncate(d, n) ==
  LET e == OpenOrCreate(d, n) IN SetFile(e, FileOf(e, n), EmptyFile)

WriteAll(d, n, blocks) == [d EXCEPT !.files[FileOf(d, n)].data = @ \o blocks]

SyncFile(d, n) == [d EXCEPT !.files[FileOf(d, n)].synced = Len(d.files[FileOf(d, n)].data)]

Truncate(d, n, len) ==
  [d EXCEPT !.files[FileOf(d, n)] =
     [data |-> SubSeq(@.data, 1, len), synced |-> IF @.synced < len THEN @.synced ELSE len]]

(* rename replaces what the new name held *)
Rename(d, from, to) ==
  SetNames(d, [m \in (DOMAIN d.names \ {from}) \union {to} |->
                 IF m = to THEN FileOf(d, from) ELSE d.names[m]])

Delete(d, n) == IF Exists(d, n) THEN SetNames(d, Restrict(d.names, DOMAIN d.names \ {n})) ELSE d

SyncDir(d) == [d EXCEPT !.dirs = {d.names}]

(* Only files with a name, or an open handle, still exist. *)
Collect(d, handles) ==
  LET linked == UNION {Range(names) : names \in d.dirs \union {d.names}}
  IN  [d EXCEPT !.files = Restrict(@, DOMAIN d.files \intersect (linked \union handles))]

(* What a file may hold after a power loss: the synced blocks, and each     *)
(* later one whole or torn, up to any length (the four crash modes).        *)
Survivors(file) ==
  UNION {{[data   |-> [i \in 1..n |-> IF i <= file.synced \/ i \in kept THEN file.data[i] ELSE Torn],
           synced |-> n] : kept \in SUBSET (file.synced + 1 .. n)}
         : n \in file.synced .. Len(file.data)}

(* Every disk a power loss may leave: one of the namespaces, and each file  *)
(* with an unsynced end cut or torn.                                        *)
AfterPowerLoss(d) ==
  LET Dirty(names) == {f \in Range(names) : d.files[f].synced < Len(d.files[f].data)}
      Outcomes(fs) == {g \in [fs -> UNION {Survivors(d.files[f]) : f \in fs}] :
                         \A f \in fs : g[f] \in Survivors(d.files[f])}
  IN  UNION {{[names |-> names, dirs |-> {names},
               files |-> [f \in Range(names) |-> IF f \in DOMAIN g THEN g[f] ELSE d.files[f]]]
              : g \in Outcomes(Dirty(names))} : names \in d.dirs}
=============================================================================
