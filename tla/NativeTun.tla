------------------------------- MODULE NativeTun -------------------------------
(***************************************************************************)
(* The TUN of the router and its policy routing: createNativeRawTUN with   *)
(* its ip commands, nativeRawTUN.cleanup, which context.AfterFunc runs in  *)
(* a goroutine of its own, and what the kernel keeps between two lives of  *)
(* the process.  The link exists while the descriptor is referenced, by    *)
(* the process or by a Read that is under way; its routes go with it; the  *)
(* rule stays until somebody deletes it.                                   *)
(***************************************************************************)

VARIABLES
    mode,     \* -mode: "rawtun" or "wg" (a local WireGuard, no TUN)
    alive,    \* the process runs
    stopped,  \* its root context is done
    ready,    \* d.ready is closed: AttachTUN was called
    pc,       \* the config goroutine: the next command of configure
    cpc,      \* the cleanup goroutine: its next command
    fd,       \* the TUN descriptor is open
    inRead,   \* readLoop is inside the Read of the TUN
    kernel,   \* link, up, route (table 51820) and rule
    failed    \* history: a command of this life failed by itself

procVars == <<alive, stopped, ready>>
tunVars == <<mode, procVars, pc, cpc, fd, inRead, kernel, failed>>

ConfigPcs == {"idle", "open", "addr", "link", "flush", "route", "ruleDel",
              "ruleAdd", "forward", "attach", "attached", "over"}
CleanupPcs == {"none", "close", "ruleDel", "flush", "linkDel", "done"}

TunTypeOK ==
    /\ mode \in {"rawtun", "wg"}
    /\ {alive, stopped, ready, fd, inRead, failed} \subseteq BOOLEAN
    /\ pc \in ConfigPcs /\ cpc \in CleanupPcs
    /\ kernel \in [{"link", "up", "route", "rule"} -> BOOLEAN]

(* The kernel takes the routes of a link away with it.                     *)
WithoutLink(k) == [k EXCEPT !["link"] = FALSE, !["up"] = FALSE, !["route"] = FALSE]

TunInit ==
    /\ mode \in {"rawtun", "wg"}
    /\ alive = TRUE /\ stopped = FALSE /\ ready = (mode = "wg")
    /\ pc = "idle" /\ cpc = "none"
    /\ fd = FALSE /\ inRead = FALSE /\ failed = FALSE
    /\ kernel = [p \in {"link", "up", "route", "rule"} |-> FALSE]

-------------------------------------------------------------------------------
(* createNativeRawTUN, called when RAWCONF was taken from configCh.  An    *)
(* error closes the descriptor and cancels the client.                     *)
GiveUp(byItself) ==
    /\ kernel' = WithoutLink(kernel)
    /\ fd' = FALSE
    /\ stopped' = TRUE
    /\ pc' = "over"
    /\ failed' = (failed \/ byItself)

(* A command whose error is returned; it can also fail by itself.          *)
Checked(at, next, works, done) ==
    /\ alive /\ pc = at
    /\ \/ /\ works
          /\ kernel' = done
          /\ pc' = next
          /\ UNCHANGED <<stopped, fd, failed>>
       \/ GiveUp(works)
    /\ UNCHANGED <<mode, alive, ready, cpc, inRead>>

(* A command whose error is ignored.                                       *)
Ignored(at, next, done) ==
    /\ alive /\ pc = at
    /\ pc' = next
    /\ \/ kernel' = done /\ UNCHANGED failed
       \/ kernel' = kernel /\ failed' = TRUE
    /\ UNCHANGED <<mode, procVars, cpc, fd, inRead>>

(* The configuration arrives.  If it cannot be split it is forgotten; a bad *)
(* name, address or MTU ends the client.                                   *)
TakeConfig ==
    /\ alive /\ mode = "rawtun" /\ pc = "idle"
    /\ \/ pc' \in {"open", "over"} /\ UNCHANGED stopped
       \/ pc' = "over" /\ stopped' = TRUE
    /\ UNCHANGED <<mode, alive, ready, cpc, fd, inRead, kernel, failed>>

(* open and TUNSETIFF create the link.                                     *)
OpenTun ==
    /\ alive /\ pc = "open"
    /\ \/ /\ kernel' = [kernel EXCEPT !["link"] = TRUE]
          /\ fd' = TRUE
          /\ pc' = "addr"
          /\ UNCHANGED <<stopped, failed>>
       \/ GiveUp(TRUE)
    /\ UNCHANGED <<mode, alive, ready, cpc, inRead>>

AddrReplace == Checked("addr", "link", TRUE, kernel)
LinkUp == Checked("link", "flush", TRUE, [kernel EXCEPT !["up"] = TRUE])
RouteFlush == Ignored("flush", "route", [kernel EXCEPT !["route"] = FALSE])
RouteReplace ==
    Checked("route", "ruleDel", kernel["up"], [kernel EXCEPT !["route"] = TRUE])

(* Mutant: the rule of an earlier life is left for "rule add" to meet.     *)
RuleDelSkipped == Ignored("ruleDel", "ruleAdd", kernel)

RuleDel == Ignored("ruleDel", "ruleAdd", [kernel EXCEPT !["rule"] = FALSE])

(* Mutant: the error of "rule add" is ignored like that of "rule del".     *)
RuleAddUnchecked == Ignored("ruleAdd", "forward", [kernel EXCEPT !["rule"] = TRUE])

(* The kernel refuses a rule that is there already.                        *)
RuleAdd ==
    Checked("ruleAdd", "forward", ~kernel["rule"], [kernel EXCEPT !["rule"] = TRUE])

Forward == Checked("forward", "attach", TRUE, kernel)

(* context.AfterFunc(ctx, cleanup), then AttachTUN.                        *)
Attach ==
    /\ alive /\ pc = "attach"
    /\ pc' = "attached"
    /\ ready' = TRUE
    /\ UNCHANGED <<mode, alive, stopped, cpc, fd, inRead, kernel, failed>>

Configure ==
    \/ OpenTun \/ AddrReplace \/ LinkUp \/ RouteFlush \/ RouteReplace
    \/ RuleDel \/ RuleAdd \/ Forward \/ Attach

-------------------------------------------------------------------------------
(* cleanup, in a goroutine that nobody waits for.                          *)
CleanupStarts ==
    /\ alive /\ pc = "attached" /\ stopped /\ cpc = "none"
    /\ cpc' = "close"
    /\ UNCHANGED <<mode, procVars, pc, fd, inRead, kernel, failed>>

(* A Read that is under way keeps the descriptor, and so the link.         *)
CloseFile ==
    /\ alive /\ cpc = "close"
    /\ fd' = FALSE
    /\ kernel' = IF inRead THEN kernel ELSE WithoutLink(kernel)
    /\ cpc' = "ruleDel"
    /\ UNCHANGED <<mode, procVars, pc, inRead, failed>>

CleanupCommand(at, next, done) ==
    /\ alive /\ cpc = at
    /\ cpc' = next
    /\ \/ kernel' = done /\ UNCHANGED failed
       \/ kernel' = kernel /\ failed' = TRUE
    /\ UNCHANGED <<mode, procVars, pc, fd, inRead>>

(* Mutant: the rule is deleted with another priority than it was added.    *)
CleanRuleOther == CleanupCommand("ruleDel", "flush", kernel)

CleanRule == CleanupCommand("ruleDel", "flush", [kernel EXCEPT !["rule"] = FALSE])
CleanRoute == CleanupCommand("flush", "linkDel", [kernel EXCEPT !["route"] = FALSE])

(* Mutant: the link is left to the close of the descriptor.                *)
CleanLinkLeft == CleanupCommand("linkDel", "done", kernel)

CleanLink == CleanupCommand("linkDel", "done", WithoutLink(kernel))

Cleanup == CleanupStarts \/ CloseFile \/ CleanRule \/ CleanRoute \/ CleanLink

-------------------------------------------------------------------------------
(* readLoop, reduced to its blocking Read: a packet ends it, and so does   *)
(* the removal of the link, but not the close of the descriptor.           *)
EnterRead ==
    /\ alive /\ mode = "rawtun" /\ ready /\ ~stopped /\ fd /\ ~inRead
    /\ inRead' = TRUE
    /\ UNCHANGED <<mode, procVars, pc, cpc, fd, kernel, failed>>

ReadReturns ==
    /\ alive /\ inRead
    /\ inRead' = FALSE
    /\ kernel' = IF fd THEN kernel ELSE WithoutLink(kernel)
    /\ UNCHANGED <<mode, procVars, pc, cpc, fd, failed>>

(* STOP, SIGTERM, or an error elsewhere in the client.                     *)
Stop ==
    /\ alive /\ ~stopped
    /\ stopped' = TRUE
    /\ UNCHANGED <<mode, alive, ready, pc, cpc, fd, inRead, kernel, failed>>

(* main returns when the config goroutine and readLoop are over; the       *)
(* kernel closes what the process had open, whatever its end.              *)
MayExit == stopped /\ pc \in {"idle", "attached", "over"} /\ ~inRead

Dies ==
    /\ alive
    /\ alive' = FALSE
    /\ kernel' = WithoutLink(kernel)
    /\ UNCHANGED <<mode, stopped, ready, pc, cpc, fd, inRead, failed>>

(* procd starts the service again.                                         *)
Respawns ==
    /\ ~alive
    /\ UNCHANGED <<mode, kernel>>
    /\ alive' = TRUE
    /\ stopped' = FALSE /\ ready' = (mode = "wg")
    /\ pc' = "idle" /\ cpc' = "none"
    /\ fd' = FALSE /\ inRead' = FALSE /\ failed' = FALSE

Device == TakeConfig \/ Configure \/ Cleanup \/ EnterRead \/ ReadReturns \/ Stop

(* The commands end; readLoop's Read ends at the latest with the link.     *)
DeviceFairness ==
    /\ WF_tunVars(Configure) /\ WF_tunVars(Cleanup)
    /\ WF_tunVars(~kernel["link"] /\ ReadReturns)

-------------------------------------------------------------------------------
(* A rule that an earlier life of the process left in the kernel (it       *)
(* crashed, or exited before the cleanup goroutine had run) never makes    *)
(* the next "ip rule add" fail, which would cancel every later start too:  *)
(* by then it is gone, unless "ip rule del" itself could not run.          *)
LeftoversNeverBlock == alive /\ pc = "ruleAdd" /\ kernel["rule"] => failed

(* From AttachTUN until cleanup begins, the LAN's traffic has its rule,    *)
(* the rule its route, and the route a link that is up: a tunnel that was  *)
(* announced as attached does carry the LAN.                               *)
LanRouted ==
    alive /\ mode = "rawtun" /\ ready /\ cpc \in {"none", "close"} =>
        fd /\ \A part \in DOMAIN kernel : kernel[part]

(* A cleanup that ran to its end leaves no rule, no route and no link,     *)
(* although readLoop may keep the descriptor in its Read.                  *)
CleanupComplete == cpc = "done" /\ ~failed => \A part \in DOMAIN kernel : ~kernel[part]
===============================================================================
