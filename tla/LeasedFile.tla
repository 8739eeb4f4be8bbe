----------------------------- MODULE LeasedFile -----------------------------
(***************************************************************************)
(* What the store promises the holders of leases, without requests, time,  *)
(* slots or change logs: each database is a versioned file with at most    *)
(* one writer.  A lease is granted with a higher epoch than any before it, *)
(* only the holder of the latest lease writes, and each write counts the   *)
(* version up by one.  A deletion ends the lease and leaves an empty file  *)
(* with a higher epoch and version.  Once a lease has ended, no step but   *)
(* the grant of another one makes the file writable again.  A purge starts *)
(* a new life, in which epochs and versions count anew.                    *)
(***************************************************************************)
EXTENDS Naturals

CONSTANTS Key, Writer, NoWriter, Content, Empty

VARIABLE file

File ==
  [life : Nat, epoch : Nat, holder : Writer \cup {NoWriter}, version : Nat, content : Content]

AFile(life, epoch, holder, version, content) ==
  [life |-> life, epoch |-> epoch, holder |-> holder, version |-> version, content |-> content]

NewFile(life) == AFile(life, 0, NoWriter, 0, Empty)

Init == file = [k \in Key |-> NewFile(0)]

Grant(f, g) ==
  g.holder # NoWriter /\ g = AFile(f.life, f.epoch + 1, g.holder, f.version, f.content)

End(f, g) == g = AFile(f.life, f.epoch, NoWriter, f.version, f.content)

Write(f, g) ==
  f.holder # NoWriter /\ g = AFile(f.life, f.epoch, f.holder, f.version + 1, g.content)

Delete(f, g) == g = AFile(f.life, f.epoch + 1, NoWriter, f.version + 1, Empty)

Purge(f, g) == g = NewFile(f.life + 1)

Step(f, g) == g = f \/ Grant(f, g) \/ End(f, g) \/ Write(f, g) \/ Delete(f, g) \/ Purge(f, g)

\* A claim or a sweep takes several files a step further at once.
Next == file' \in [Key -> File] /\ \A k \in Key : Step(file[k], file'[k])

Spec == Init /\ [][Next]_file
=============================================================================
