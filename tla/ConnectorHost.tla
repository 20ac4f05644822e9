----------------------------- MODULE ConnectorHost -----------------------------
(* The entry of this product in the configuration of the application that   *)
(* hosts a connector (connector-lifecycle.ts with its adapters for Codex,   *)
(* Claude Code and Claude Desktop).  The configuration belongs to the host  *)
(* and its user, who change it at any time; a command reads it, waits for   *)
(* probes, and changes it through the host's own command line, which may    *)
(* fail with or without having acted.  A release's install first makes sure *)
(* of the identity, rotating it when its key is stale (ClientIdentity).     *)
EXTENDS ClientIdentity, Sequences

CONSTANTS
  Hosts,        \* the hosts considered: "codex", "claude-code", "claude-desktop"
  MaxEdits      \* bound on the changes the host's user makes

ASSUME EditsAssumption == MaxEdits \in Nat

VARIABLES
  host,         \* the host at hand
  config,       \* its entries by name
  cmd,          \* the commands
  behind,       \* per command: names changed by others since its last reading
  edits

hostVars == <<host, config, cmd, behind, edits>>
connectorVars == <<identVars, hostVars>>

\* Claude Code is registered under a name of its own; an older release used
\* the name of the product.
NamesOf(h) == IF h = "claude-code" THEN {"legacy", "current"} ELSE {"current"}
Names == NamesOf(host)

\* What stands under a name: nothing, this installation's entry of today, one of
\* its entries that is out of date (Codex, Claude Code) or disabled (Claude
\* Desktop), or somebody else's.  An entry is its command and its arguments:
\* what else the user put into it (an environment, timeouts) is not told apart,
\* and is lost when Codex' entry is removed and put back.
Forms == {"none", "own", "lapsed", "foreign"}
Owned(form) == form \in {"own", "lapsed"}

EndPhases == {"refused", "kept", "installed", "removed", "offered", "failed",
          "unrestored", "rotated", "killed"}
Phases == {"idle", "probing", "rotating", "reading", "validating", "proving",
           "changing", "rereading", "confirming", "undoing", "restoring"} \cup EndPhases

Call == {"remove", "add_own", "add_lapsed", "stop"} \X {"legacy", "current"}

HostTypeOK ==
  /\ IdentTypeOK
  /\ host \in Hosts /\ config \in [Names -> Forms] /\ edits \in 0..MaxEdits
  /\ \A c \in Commands :
       /\ cmd[c].at \in Phases /\ cmd[c].action \in {"none", "install", "remove", "rotate"}
       /\ cmd[c].read \in [Names -> Forms]
       /\ \A i \in DOMAIN cmd[c].todo : cmd[c].todo[i] \in Call
       /\ behind[c] \subseteq Names

HostInit ==
  /\ IdentInit
  /\ host \in Hosts /\ config \in [Names -> Forms] /\ edits = 0
  /\ cmd = [c \in Commands |-> [at |-> "idle", action |-> "none",
                                read |-> [n \in Names |-> "none"], todo |-> <<>>]]
  /\ behind = [c \in Commands |-> {}]

-------------------------------------------------------------------------------
(* What a reading says (configurationStatus, classifyRegistrations).         *)
Conflict(entries) == \E n \in Names : entries[n] = "foreign"
\* Bug: the older name is not looked at.
Healthy_NameOnly(entries) == entries["current"] = "own"
Healthy(entries) == \A n \in Names : entries[n] = IF n = "current" THEN "own" ELSE "none"
Absent(entries) == \A n \in Names : entries[n] = "none"

\* install replaces an out-of-date entry of its own; a disabled extension is
\* left to the user of Claude Desktop.
Installable(entries) ==
  ~Conflict(entries) /\ (host = "claude-desktop" => Absent(entries))

\* The calls of the host's command line, the older name first.
Removal(n, entries) ==
  IF n \in Names /\ entries[n] # "none" THEN <<<<"remove", n>>>> ELSE <<>>
Removals(entries) == Removal("legacy", entries) \o Removal("current", entries)

Additions == <<<<"add_own", "current">>>>

\* Bug: restore goes by the name alone.
Undo_ByName(now, entries) ==
  LET back(n) ==
        IF n \notin Names \/ now[n] = entries[n] THEN <<>>
        ELSE (IF now[n] # "none" THEN <<<<"remove", n>>>> ELSE <<>>) \o
             (IF entries[n] = "own" THEN <<<<"add_own", n>>>> ELSE <<>>)
  IN back("current") \o back("legacy")

\* restore: each name back to what the first reading had there, today's name
\* first; an entry of somebody else's is preserved and ends it.
Addition(n, form) ==
  CASE form = "own" -> <<<<"add_own", n>>>>
    [] form = "lapsed" -> <<<<"add_lapsed", n>>>>
    [] OTHER -> <<>>
Back(n, now, entries) ==
  IF n \notin Names \/ now[n] = entries[n] THEN <<>>
  ELSE IF now[n] = "foreign" THEN <<<<"stop", n>>>>
  ELSE Removal(n, now) \o Addition(n, entries[n])
Undo(now, entries) == Back("current", now, entries) \o Back("legacy", now, entries)

\* The entry under the name once the call has acted.
Effect(call, form) ==
  CASE call[1] = "remove" -> "none"
    [] call[1] = "add_own" -> "own"
    [] call[1] = "add_lapsed" -> "lapsed"
    [] OTHER -> form

-------------------------------------------------------------------------------
Moves(c, at) == cmd' = [cmd EXCEPT ![c].at = at]
Plans(c, at, todo) == cmd' = [cmd EXCEPT ![c].at = at, ![c].todo = todo]
Noticed(c) == behind' = [behind EXCEPT ![c] = {}]
Behind(c, n) == behind' = [d \in Commands |-> behind[d] \cup IF d = c THEN {} ELSE {n}]
Quiet == UNCHANGED <<host, config, behind, edits>>

Begin(c) ==
  /\ cmd[c].at = "idle"
  /\ \E action \in {"install", "remove", "rotate"} :
       /\ action = "remove" => host # "claude-desktop"
       /\ cmd' = [cmd EXCEPT ![c].action = action,
                             ![c].at = CASE action = "install" -> "probing"
                                         [] action = "rotate" -> "rotating"
                                         [] OTHER -> "reading"]
  /\ Quiet /\ UNCHANGED identVars

\* ensureMcpClientIdentity: a stale key is rotated, once; anything else ends
\* the command.
Ensure(c) ==
  /\ cmd[c].at = "probing"
  /\ \/ Moves(c, "reading") \/ Moves(c, "refused")
     \/ rot[c].at = "none" /\ Moves(c, "rotating")
  /\ Quiet /\ UNCHANGED identVars

Rotating(c) ==
  /\ cmd[c].at = "rotating"
  /\ \/ (Inspect(c) \/ Rotates(c)) /\ UNCHANGED cmd
     \/ /\ rot[c].at \in {"rotated", "failed"} /\ UNCHANGED identVars
        /\ Moves(c, CASE rot[c].at = "failed" -> "refused"
                      [] cmd[c].action = "install" -> "probing"
                      [] OTHER -> "rotated")
  /\ Quiet

\* readConfiguration and what follows up to the next wait.
Read(c) ==
  LET go(at, todo) == cmd' = [cmd EXCEPT ![c].at = at, ![c].read = config, ![c].todo = todo]
  IN /\ cmd[c].at = "reading" /\ Noticed(c)
     /\ \/ /\ cmd[c].action = "install"
           /\ CASE Healthy(config) -> go("validating", <<>>)
                [] Installable(config) /\ ~Healthy(config) ->
                     go("proving", Removals(config) \o Additions)
                [] OTHER -> go("refused", <<>>)
        \/ /\ cmd[c].action = "remove"
           /\ CASE Absent(config) -> go("removed", <<>>)
                [] Healthy(config) -> go("changing", Removals(config))
                [] OTHER -> go("refused", <<>>)
     /\ UNCHANGED <<host, config, edits, identVars>>

\* The entry was healthy: its identity and its runtime are probed, and nothing
\* is changed either way.
Validated(c) ==
  /\ cmd[c].at = "validating" /\ \E at \in {"kept", "refused"} : Moves(c, at)
  /\ Quiet /\ UNCHANGED identVars

\* identityIsHealthy answered.  Claude Desktop takes a package it is handed,
\* when its user approves it there.
Proved(c) ==
  /\ cmd[c].at = "proving"
  /\ \/ Plans(c, "refused", <<>>)
     \/ IF host = "claude-desktop" THEN Plans(c, "offered", <<>>) ELSE Moves(c, "changing")
  /\ Quiet /\ UNCHANGED identVars

\* One call of the host's command line.  It succeeds, or fails before or after
\* it acted; a failure while changing is undone, one while undoing is reported.
Tool(c) ==
  /\ cmd[c].at \in {"changing", "restoring"} /\ cmd[c].todo # <<>>
  /\ LET call == Head(cmd[c].todo)
         acts == [config EXCEPT ![call[2]] = Effect(call, @)]
         lost == IF cmd[c].at = "changing" THEN "undoing" ELSE "unrestored"
     IN \/ /\ call[1] # "stop" /\ config' = acts /\ Behind(c, call[2])
           /\ \/ Plans(c, cmd[c].at, Tail(cmd[c].todo))
              \/ Plans(c, lost, <<>>)
        \/ /\ Plans(c, lost, <<>>) /\ UNCHANGED <<config, behind>>
  /\ UNCHANGED <<host, edits, identVars>>

\* What the host retained decides; an install also waits for its probes.
Reread(c) ==
  /\ cmd[c].at = "changing" /\ cmd[c].todo = <<>> /\ Noticed(c)
  /\ Moves(c, CASE cmd[c].action = "install" /\ Healthy(config) -> "confirming"
                [] cmd[c].action = "remove" /\ Absent(config) -> "removed"
                [] OTHER -> "undoing")
  /\ UNCHANGED <<host, config, edits, identVars>>

Confirmed(c) ==
  /\ cmd[c].at = "confirming" /\ \E at \in {"installed", "undoing"} : Moves(c, at)
  /\ Quiet /\ UNCHANGED identVars

\* restore reads the configuration anew before it changes anything.
Restore(c) ==
  /\ cmd[c].at = "undoing" /\ Noticed(c)
  /\ Plans(c, "restoring", Undo(config, cmd[c].read))
  /\ UNCHANGED <<host, config, edits, identVars>>

Restored(c) ==
  /\ cmd[c].at = "restoring" /\ cmd[c].todo = <<>> /\ Moves(c, "failed")
  /\ Quiet /\ UNCHANGED identVars

\* A reading that fails ends a command that has changed nothing, has a change
\* undone, and leaves what was to be undone, which is reported.
Unreadable(c) ==
  /\ \/ cmd[c].at = "reading" /\ Moves(c, "refused")
     \/ cmd[c].at = "changing" /\ cmd[c].todo = <<>> /\ Moves(c, "undoing")
     \/ cmd[c].at = "undoing" /\ Moves(c, "unrestored")
  /\ Quiet /\ UNCHANGED identVars

\* The user of the host, or the host itself, changes an entry.
Edit(n, form) ==
  /\ edits < MaxEdits /\ config[n] # form
  /\ config' = [config EXCEPT ![n] = form] /\ edits' = edits + 1
  /\ behind' = [c \in Commands |-> behind[c] \cup {n}]
  /\ UNCHANGED <<host, cmd, identVars>>

Kill(c) ==
  /\ cmd[c].at \notin EndPhases \cup {"idle"} /\ Plans(c, "killed", <<>>)
  /\ Quiet /\ UNCHANGED identVars

HostNext ==
  \/ \E c \in Commands :
       \/ Begin(c) \/ Ensure(c) \/ Rotating(c) \/ Read(c) \/ Validated(c) \/ Proved(c)
       \/ Tool(c) \/ Reread(c) \/ Confirmed(c) \/ Restore(c) \/ Restored(c)
       \/ Unreadable(c) \/ Kill(c)
  \/ \E n \in Names, form \in Forms : Edit(n, form)

HostSpec == HostInit /\ [][HostNext]_connectorVars

-------------------------------------------------------------------------------
(* An entry of somebody else's that stood there when the command last read   *)
(* the configuration is never removed or replaced by it, whatever failed in  *)
(* between (conflictError, removalRefusedError, "the unrelated entry was     *)
(* preserved").                                                              *)
StrangersAreKept ==
  [][\A c \in Commands, n \in Names :
       (cmd'[c] # cmd[c] /\ config[n] = "foreign" /\ config'[n] # "foreign")
         => n \in behind[c]]_connectorVars

(* A command's answer tells what the host's configuration is, save for names *)
(* others have changed since its last reading: today's entry and no other of *)
(* ours after an install, none after a removal, and what was there before    *)
(* after a failure that does not report that it could not be undone, the     *)
(* install or removal having failed at any of its calls, readings or probes. *)
AnswersAreTrue ==
  /\ HostTypeOK
  /\ \A c \in Commands : \A n \in Names \ behind[c] :
       /\ cmd[c].at \in {"installed", "kept"} =>
            config[n] = IF n = "current" THEN "own" ELSE "none"
       /\ cmd[c].at = "removed" => config[n] = "none"
       /\ cmd[c].at = "failed" => config[n] = cmd[c].read[n]

===============================================================================
