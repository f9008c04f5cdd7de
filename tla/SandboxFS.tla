------------------------------ MODULE SandboxFS ------------------------------
(***************************************************************************)
(* The namespace a browser can be run in (pkg/sandbox, cmd/sandbox).  A    *)
(* bootstrap process makes a directory for the new root and starts, in new *)
(* namespaces, a process that fills it with mounts, makes it its root and  *)
(* starts the command.  Every call to the system may fail.                 *)
(*                                                                         *)
(* Mounts exist in the namespaces of the inner process alone and vanish    *)
(* with it.  The directory has two layers: the mounts made in it, and,     *)
(* when it has been bound onto itself, the copy that lies over them.       *)
(* Symbolic links, the read-only flag and what is left of the capabilities *)
(* are left out: giving capabilities up may fail without consequence.      *)
(***************************************************************************)
EXTENDS Naturals, Sequences

CONSTANTS BaseDirs,   \* the directories of the host to show, in their order
          BindLists   \* the bind mounts a command may ask for: sequences of
                      \* destinations, the last of them "tmp"

ASSUME SandboxAssumption ==
  \A list \in BindLists :
    list \in Seq(STRING) /\ list # <<>> /\ list[Len(list)] = "tmp"

VARIABLES bootstrap, \* "off", "waiting" for the inner process, "exited" or "killed"
          inner,     \* where the inner process is
          binds,     \* the bind mounts asked for
          todo,      \* what is still to be mounted
          mounted,   \* what is mounted in the directory
          copy,      \* what its copy over itself holds, or NoCopy
          root,      \* how the inner process got its root: "host", "pivot", "chroot"
          inside,    \* its working directory is in its root
          oldRoot    \* the old root, in the new one: "none", "attached", "detached"

sandboxVars == <<bootstrap, inner, binds, todo, mounted, copy, root, inside, oldRoot>>

NoCopy == {"no copy"}
Ended == {"succeeded", "failed"}

SandboxInit ==
  /\ bootstrap = "off" /\ inner = "none" /\ binds = <<>>
  /\ todo = <<>> /\ mounted = {} /\ copy = NoCopy
  /\ root = "host" /\ inside = FALSE /\ oldRoot = "none"

-----------------------------------------------------------------------------
(* The bootstrap process.                                                  *)

\* Without its directory the bootstrap process ends at once; without its
\* namespaces the inner process does not start.
Bootstrap ==
  /\ bootstrap = "off"
  /\ binds' \in BindLists
  /\ \/ bootstrap' = "waiting" /\ inner' \in {"start", "failed"}
     \/ bootstrap' = "exited" /\ inner' = "failed"
  /\ UNCHANGED <<todo, mounted, copy, root, inside, oldRoot>>

\* The inner process is gone: the directory is removed, and the exit code is
\* that of the inner process.
Remove ==
  /\ bootstrap = "waiting" /\ inner \in Ended
  /\ bootstrap' = "exited"
  /\ UNCHANGED <<inner, binds, todo, mounted, copy, root, inside, oldRoot>>

\* A signal ends the inner process alone; the parent's kill ends both, and the
\* directory stays.
Interrupted ==
  /\ bootstrap = "waiting" /\ inner \notin Ended
  /\ inner' = "failed"
  /\ UNCHANGED <<bootstrap, binds, todo, mounted, copy, root, inside, oldRoot>>
Killed ==
  /\ bootstrap = "waiting"
  /\ bootstrap' = "killed"
  /\ inner' = IF inner \in Ended THEN inner ELSE "failed"
  /\ UNCHANGED <<binds, todo, mounted, copy, root, inside, oldRoot>>

\* Nothing of a sandbox matters once it has ended; the next one starts anew.
Forgotten ==
  /\ bootstrap' = "off" /\ inner' = "none" /\ binds' = <<>>
  /\ todo' = <<>> /\ mounted' = {} /\ copy' = NoCopy
  /\ root' = "host" /\ inside' = FALSE /\ oldRoot' = "none"

Succeeded == bootstrap = "exited" /\ inner = "succeeded"

-----------------------------------------------------------------------------
(* The inner process: SetupFS, and then the command.                       *)

At(step) == bootstrap = "waiting" /\ inner = step
Goes(step) == inner' = step
Fails == /\ Goes("failed")
         /\ UNCHANGED <<todo, mounted, copy, root, inside, oldRoot>>

\* The three kinds of mount: a procfs, a directory of the host as it is there,
\* and a bind mount the command asked for.
MountProcfs == mounted' = mounted \union {"proc"}
ReplicateBaseBindMount(mnt) == mounted' = mounted \union {mnt}
Mount(destination) == mounted' = mounted \union {destination}

\* A procfs of its own, unless the command brings one; where that is not
\* permitted the host's is shown.
MountProc ==
  /\ At("start")
  /\ \/ /\ "proc" \notin {binds[i] : i \in DOMAIN binds}
        /\ MountProcfs
        /\ todo' = BaseDirs
        /\ Goes("base") /\ UNCHANGED <<copy, root, inside, oldRoot>>
     \/ /\ todo' = Append(BaseDirs, "proc")
        /\ Goes("base") /\ UNCHANGED <<mounted, copy, root, inside, oldRoot>>
     \/ Fails
  /\ UNCHANGED <<bootstrap, binds>>

\* A directory the host does not have, or does not let us see, is skipped.
MountBase ==
  /\ At("base") /\ todo # <<>>
  /\ \/ /\ ReplicateBaseBindMount(Head(todo))
        /\ todo' = Tail(todo) /\ UNCHANGED <<inner, copy, root, inside, oldRoot>>
     \/ todo' = Tail(todo) /\ UNCHANGED <<inner, mounted, copy, root, inside, oldRoot>>
     \/ Fails
  /\ UNCHANGED <<bootstrap, binds>>

BaseDone ==
  /\ At("base") /\ todo = <<>>
  /\ todo' = binds /\ Goes("binds")
  /\ UNCHANGED <<bootstrap, binds, mounted, copy, root, inside, oldRoot>>

BindMount ==
  /\ At("binds")
  /\ \/ /\ Mount(Head(todo))
        /\ todo' = Tail(todo)
        /\ Goes(IF Len(todo) = 1 THEN "bind self" ELSE "binds")
        /\ UNCHANGED <<copy, root, inside, oldRoot>>
     \/ Fails
  /\ UNCHANGED <<bootstrap, binds>>

\* The bind of the directory onto itself takes the mounts below with it.
Copied == mounted
BindSelf ==
  /\ At("bind self")
  /\ \/ copy' = Copied /\ Goes("make old root")
     \/ copy' = copy /\ Goes("chroot")
  /\ UNCHANGED <<bootstrap, binds, todo, mounted, root, inside, oldRoot>>

MakeOldRoot ==
  /\ At("make old root")
  /\ inner' \in {"pivot", "undo"}
  /\ UNCHANGED <<bootstrap, binds, todo, mounted, copy, root, inside, oldRoot>>

PivotRoot ==
  /\ At("pivot")
  /\ \/ root' = "pivot" /\ oldRoot' = "attached" /\ Goes("chdir")
     \/ UNCHANGED <<root, oldRoot>> /\ Goes("undo")
  /\ UNCHANGED <<bootstrap, binds, todo, mounted, copy, inside>>

\* Before pivot_root succeeded there is a way back, to the plain chroot.
Undo ==
  /\ At("undo")
  /\ \/ /\ copy' = NoCopy /\ Goes("chroot")
        /\ UNCHANGED <<todo, mounted, root, inside, oldRoot>>
     \/ Fails
  /\ UNCHANGED <<bootstrap, binds>>

Chroot ==
  /\ At("chroot")
  /\ \/ /\ root' = "chroot" /\ Goes("chdir")
        /\ UNCHANGED <<todo, mounted, copy, inside, oldRoot>>
     \/ Fails
  /\ UNCHANGED <<bootstrap, binds>>

\* Only a root that was pivoted has an old one to get rid of.  A definition
\* whose name ends in Fault is the one that follows it with a mistake in it;
\* nothing uses it.
AfterChdirFault == "command"                            \* the old root stays
AfterChdir == IF root = "pivot" THEN "detach" ELSE "command"
Chdir ==
  /\ At("chdir")
  /\ \/ /\ inside' = TRUE /\ Goes(AfterChdir)
        /\ UNCHANGED <<todo, mounted, copy, root, oldRoot>>
     \/ Fails
  /\ UNCHANGED <<bootstrap, binds>>

Detach ==
  /\ At("detach")
  /\ \/ /\ oldRoot' = "detached" /\ Goes("remove old root")
        /\ UNCHANGED <<todo, mounted, copy, root, inside>>
     \/ Fails
  /\ UNCHANGED <<bootstrap, binds>>

RemoveOldRoot ==
  /\ At("remove old root")
  /\ \/ /\ oldRoot' = "none" /\ Goes("command")
        /\ UNCHANGED <<todo, mounted, copy, root, inside>>
     \/ Fails
  /\ UNCHANGED <<bootstrap, binds>>

\* The command starts, unless it or its directory does not exist.
Exec ==
  /\ At("command")
  /\ inner' \in {"running", "failed"}
  /\ UNCHANGED <<bootstrap, binds, todo, mounted, copy, root, inside, oldRoot>>

CommandEnds ==
  /\ At("running")
  /\ inner' \in Ended
  /\ UNCHANGED <<bootstrap, binds, todo, mounted, copy, root, inside, oldRoot>>

SetupFS == MountProc \/ MountBase \/ BaseDone \/ BindMount
           \/ BindSelf \/ MakeOldRoot \/ PivotRoot \/ Undo \/ Chroot \/ Chdir \/ Detach \/ RemoveOldRoot
SandboxStep == SetupFS \/ Exec \/ CommandEnds \/ Interrupted \/ Remove

\* What any program that runs a sandbox may do with it: start it, kill it, wait
\* for it, and forget it, after which the next one starts anew.
SandboxSpec ==
  SandboxInit /\ [][Bootstrap \/ Killed \/ Forgotten \/ SandboxStep]_sandboxVars

-----------------------------------------------------------------------------
\* What the process sees below its root: the copy, where there is one.
Visible == IF copy = NoCopy THEN mounted ELSE copy

\* However the calls fail and whichever way the root is changed, a command
\* runs only inside the new root, with nothing left of the old one, and sees
\* every mount that was made for it (sandbox.go:236-297).
Confined ==
  inner = "running" =>
    /\ root # "host" /\ inside /\ oldRoot = "none"
    /\ Visible = mounted
    /\ "tmp" \in Visible
=============================================================================
