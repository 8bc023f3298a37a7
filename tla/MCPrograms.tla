------------------------------ MODULE MCPrograms ------------------------------
(* Instances for TLC of surf's seotool and plate's accounts, which have     *)
(* nothing to do with each other; "on" is the one a behaviour is about, and *)
(* the variables of the other are Off.                                      *)
EXTENDS MCSeoAudit

VARIABLES on,
  proc, mem, answer, script, up, asked, acts, inst, files, holder, pool, before, failed    \* plate

seoOnly == <<job, site, pc, round, stack, urls, file, plan, report, config, shard, runs, alive, expanded>>
plateOnly == <<proc, mem, answer, script, up, asked, acts, inst, files, holder, pool, before, failed>>

Off == FALSE
SeoOff == /\ job = Off /\ site = Off /\ pc = Off /\ round = Off /\ stack = Off /\ urls = Off /\ file = Off
          /\ plan = Off /\ report = Off /\ config = Off /\ shard = Off /\ runs = Off /\ alive = Off /\ expanded = Off
PlateOff == /\ proc = Off /\ mem = Off /\ answer = Off /\ script = Off /\ up = Off /\ asked = Off /\ acts = Off /\ inst = Off /\ files = Off
            /\ holder = Off /\ pool = Off /\ before = Off /\ failed = Off

----------------------------------------------------------------------------
(* plate: a first token asked for twice, and with a wrong one; the life of  *)
(* a VM; two accounts with billing; more VMs than addresses; requests that  *)
(* are refused.                                                             *)
Req(op, tok, acct, vm) == [op |-> op, tok |-> tok, acct |-> acct, vm |-> vm, plan |-> "small", blank |-> FALSE]
PlateScripts ==
  {<<Req("account", 0, 0, 0), Req("token", 0, 1, 0), Req("token", 0, 1, 0), Req("create", 2, 0, 0),
     Req("token", -1, 1, 0)>>,
   <<Req("account", 0, 0, 0), Req("token", 0, 1, 0), Req("create", 2, 0, 0), Req("stop", 2, 0, 3),
     Req("start", 2, 0, 3), Req("delete", 2, 0, 3)>>,
   <<Req("account", 0, 0, 0), Req("account", 0, 0, 0), Req("token", 0, 1, 0), Req("create", 3, 2, 0),
     Req("billing", 3, 0, 0), Req("billing", 0, 0, 0)>>,
   <<Req("panel create", 0, 0, 0), Req("create", 0, 0, 0), Req("create", 0, 0, 0)>>,
   <<[Req("create", 0, 0, 0) EXCEPT !.plan = "huge"], [Req("account", 0, 0, 0) EXCEPT !.blank = TRUE],
     Req("create", 0, 0, 0), Req("delete", 0, 0, 3), Req("stop", 0, 0, 3)>>}
Part(kind, ip, ones) == [kind |-> kind, ip |-> ip, ones |-> ones]
PL == INSTANCE PlateApi WITH
  Scripts <- PlateScripts, Plans <- {"tiny", "small", "medium", "large"}, MaxFailed <- 1,
  Specs <- {<<>>, <<Part("host", <<10, 0, 0, 9>>, 32), Part("blank", <<>>, 0), Part("cidr", <<10, 0, 0, 9>>, 30)>>,
            <<Part("blank", <<>>, 0)>>, <<Part("cidr", <<10, 0, 0, 255>>, 31), Part("malformed", <<>>, 0)>>}

----------------------------------------------------------------------------
MCInit ==
  \/ on = "seo" /\ Init /\ PlateOff
  \/ on = "plate" /\ PL!Init /\ SeoOff
MCNext ==
  /\ UNCHANGED on
  /\ \/ on = "seo" /\ Next /\ UNCHANGED plateOnly
     \/ on = "plate" /\ PL!Next /\ UNCHANGED seoOnly

(* seotool: what each of its commands promises; see SeoAudit.               *)
CrawlPromise == on = "seo" => CrawlIsClosed
PlanPromise == on = "seo" => PlanIsComplete
ScorePromise == on = "seo" => ScoreIsExplained
DiffPromise == on = "seo" => DiffIsFaithful
BatchPromise == on = "seo" => BatchCoversList
TreePromise == on = "seo" => TreeKeepsDocument

(* plate: what was answered stays, tokens are asked for once there is one,  *)
(* usage is billed to the right account, and the pool holds the hosts of    *)
(* its text (accounts.Store, api.Server, ippool.Pool).                      *)
PlatePromise == on = "plate" => PL!AnswersLast /\ PL!TokenRequired /\ PL!BilledRight /\ PL!PoolIsSpec
=============================================================================
