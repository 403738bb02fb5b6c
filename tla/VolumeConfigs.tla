--------------------------- MODULE VolumeConfigs ----------------------------
(***************************************************************************)
(* The configuration files of volumes, read once per command while an      *)
(* administrator edits them, and the two commands that act on several      *)
(* volumes with one reading: config check, which asks each key provider    *)
(* for the key and tries it, and open. What open does to a device step by  *)
(* step is in VolumeLifecycle; here it is one step.                        *)
(*                                                                         *)
(* A file holds Absent, Broken (no VolumeConfig) or [volume, dev, section, *)
(* auto_open]. A device is [exists, header, slot, user].                   *)
(***************************************************************************)
EXTENDS KeyProviders, FiniteSets, SequencesExt

CONSTANTS
    Commands,
    Files,
    Jobs,           \* what the commands may be asked: [kind, keep, skip, volumes]
    Contents,       \* what a file may be changed to
    InitialFiles,   \* the files at the start, each a function of Files
    InitialDevs,    \* device -> its state at the start
    InitialSecrets, \* key -> secret
    Order,          \* the volume names in their order
    MaxChanges      \* bound: edits of files and changes of secrets

ASSUME ConfigsAssumption == MaxChanges \in Nat

VARIABLES
    files, devs, secrets,
    changes,        \* changes made
    randoms,        \* passphrases that otp generated
    checked,        \* a complete check passed, and nothing was changed since
    st              \* command -> its progress

vars == <<files, devs, secrets, changes, randoms, checked, st>>
world == <<files, devs, secrets, changes>>

Absent == [volume |-> "absent"]
Broken == [volume |-> "broken"]
Null == [volume |-> "null"]
None == "none"
Job(c) == st[c].job
Goto(c, l) == st' = [st EXCEPT ![c].pc = l]
Dev(c) == devs[st[c].cur.dev]
Ended == {"done", "failed"}

Init ==
    /\ files \in InitialFiles /\ devs = InitialDevs /\ secrets = InitialSecrets
    /\ changes = 0 /\ randoms = 0 /\ checked = FALSE
    /\ \E jobs \in Jobs : st = [c \in Commands |->
              [job |-> jobs[c], pc |-> "start", cached |-> FALSE, configs |-> {}, unread |-> {}, steady |-> {},
               loads |-> 0, todo |-> jobs[c].volumes, cur |-> Null, ready |-> FALSE, error |-> FALSE,
               calls |-> <<>>, tries |-> 0, pass |-> <<>>,
               fresh |-> TRUE, trusting |-> FALSE, hit |-> FALSE]]

-----------------------------------------------------------------------------
(* get_volume_configs *)

(* get_volume_config: the next volume, which may be unknown; or the end.    *)
Picked(s) ==
    LET found == {v \in s.configs : v.volume = Head(s.todo)}
    IN IF s.todo = <<>> THEN [s EXCEPT !.pc = "end"]
       ELSE IF found = {} THEN [s EXCEPT !.pc = "failed"]
       ELSE [s EXCEPT !.pc = s.job.kind, !.cur = CHOOSE v \in found : TRUE, !.ready = FALSE]

Begin(c) ==
    /\ st[c].pc = "start"
    /\ st' = [st EXCEPT ![c].pc = "get", ![c].trusting = checked]
    /\ UNCHANGED <<world, randoms, checked>>

(* CachedVolumeConfigSource: a command reads the directory at most once.    *)
get_volume_configs(c) ==
    /\ st[c].pc = "get"
    /\ st' = [st EXCEPT ![c] =
                IF @.cached THEN Picked(@)
                ELSE [@ EXCEPT !.pc = "load", !.unread = Files, !.steady = Files, !.configs = {},
                               !.loads = @ + 1]]
    /\ UNCHANGED <<world, randoms, checked>>

Parses(content) == content # Broken /\ Variant(content.section) # Invalid

(* load_volume_configs reads the files in the order of the directory. One   *)
(* that does not parse, or names a volume a second time, fails it all.      *)
LoadFile(c) ==
    /\ st[c].pc = "load"
    /\ \E f \in st[c].unread :
         LET got == {v \in {files[f]} : v # Absent}
         IN IF \E v \in got : ~Parses(v) \/ \E w \in st[c].configs : v.volume = w.volume
            THEN Goto(c, "failed")
            ELSE st' = [st EXCEPT ![c].unread = @ \ {f}, ![c].configs = @ \cup got]
    /\ UNCHANGED <<world, randoms, checked>>

(* The configurations sorted by name; config check goes through all.        *)
Sorted(configs) ==
    SelectSeq(Order, LAMBDA v : \E w \in configs : w.volume = v)

(* Mutant: what was read is not kept.                                       *)
LoadEnd_NotKept(c) ==
    /\ st[c].pc = "load" /\ st[c].unread = {}
    /\ st' = [st EXCEPT ![c] =
                Picked([@ EXCEPT !.todo = IF Job(c).kind = "check" THEN Sorted(st[c].configs) ELSE @])]
    /\ UNCHANGED <<world, randoms, checked>>

LoadEnd(c) ==
    /\ st[c].pc = "load" /\ st[c].unread = {}
    /\ st' = [st EXCEPT ![c] =
                Picked([@ EXCEPT !.cached = TRUE,
                                 !.todo = IF Job(c).kind = "check" THEN Sorted(st[c].configs) ELSE @])]
    /\ UNCHANGED <<world, randoms, checked>>

-----------------------------------------------------------------------------
(* config check *)

(* The volume is done with.                                                 *)
Done(s) == Picked([s EXCEPT !.todo = Tail(@)])
(* get_key begins.                                                          *)
Ask(s) == [s EXCEPT !.pc = "call", !.calls = Calls(s.cur.section), !.tries = 1]

(* Mutant: an error is forgotten when nothing is wrong later.               *)
Continue_Forgets(c, s, wrong) ==
    IF wrong /\ ~Job(c).keep THEN [s EXCEPT !.pc = "failed"] ELSE [s EXCEPT !.error = wrong]

(* continue_or_throw, with --keep-checking or without.                      *)
Continue(c, s, wrong) ==
    IF wrong /\ ~Job(c).keep THEN [s EXCEPT !.pc = "failed"] ELSE [s EXCEPT !.error = @ \/ wrong]
Then(s, next) == IF s.pc = "failed" THEN s ELSE next

(* The device of a volume: it must exist, and be initialised if it is       *)
(* opened automatically. is_initialized may fail.                           *)
CheckDevice(c) ==
    /\ st[c].pc = "check"
    /\ LET ready == Dev(c).exists /\ Dev(c).header = "ready"
           wrong == ~Dev(c).exists \/ (st[c].cur.auto_open /\ ~ready)
           Next_(s) == Then(s, IF Job(c).skip THEN Done(s) ELSE Ask(s))
       IN \/ st' = [st EXCEPT ![c] = Next_(Continue(c, [@ EXCEPT !.ready = ready], wrong))]
          \/ Dev(c).exists /\ st' = [st EXCEPT ![c] = Next_(Continue(c, @, TRUE))]
    /\ UNCHANGED <<world, randoms, checked>>

(* check_passphrase, if the device is initialised.                          *)
CheckPassphrase(c) ==
    /\ st[c].pc = "have" /\ Job(c).kind = "check"
    /\ LET s == Continue(c, st[c], st[c].ready /\ Dev(c).slot # st[c].pass)
       IN st' = [st EXCEPT ![c] = Then(s, Done(s))]
    /\ UNCHANGED <<world, randoms, checked>>

(* After the last volume: an error that was met fails config check.         *)
End(c) ==
    /\ st[c].pc = "end"
    /\ Goto(c, IF st[c].error THEN "failed" ELSE "done")
    /\ checked' = (checked \/ (/\ Job(c).kind = "check" /\ ~Job(c).skip
                               /\ ~st[c].error /\ st[c].fresh))
    /\ UNCHANGED <<world, randoms>>

-----------------------------------------------------------------------------
(* get_key, for both commands *)

CallOk(c) ==
    /\ st[c].pc = "call" /\ st[c].calls # <<>>
    /\ st' = [st EXCEPT ![c].calls = Tail(@)]
    /\ UNCHANGED <<world, randoms, checked>>

(* An error of get_key: config check may go on, open ends.                  *)
KeyFails(c, s) ==
    IF Job(c).kind = "open" THEN [s EXCEPT !.pc = "failed"]
    ELSE Then(Continue(c, s, TRUE), Done(Continue(c, s, TRUE)))

(* Mutant: the attempts are counted anew when they are used up.             *)
CallFails_Restarts(c) ==
    /\ st[c].pc = "call" /\ st[c].calls # <<>>
    /\ IF Head(st[c].calls) = "get_secret"
       THEN st' = [st EXCEPT ![c].tries = (@ % MaxAttempts) + 1]
       ELSE st' = [st EXCEPT ![c] = KeyFails(c, [@ EXCEPT !.hit = TRUE])]
    /\ UNCHANGED <<world, randoms, checked>>

CallFails(c) ==
    /\ st[c].pc = "call" /\ st[c].calls # <<>>
    /\ IF Retried(Head(st[c].calls), st[c].tries)
       THEN st' = [st EXCEPT ![c].tries = @ + 1]
       ELSE st' = [st EXCEPT ![c] = KeyFails(c, [@ EXCEPT !.hit = TRUE])]
    /\ UNCHANGED <<world, randoms, checked>>

(* The answer: a fresh passphrase for otp, a panic for tpm2 (todo!), else   *)
(* the secret, if it can be decoded.                                        *)
KeyEnd(c) ==
    /\ st[c].pc = "call" /\ st[c].calls = <<>>
    /\ LET section == st[c].cur.section IN
       IF section.type = "otp"
       THEN /\ st' = [st EXCEPT ![c].pc = "have", ![c].pass = <<"random", randoms>>]
            /\ randoms' = randoms + 1
       ELSE /\ UNCHANGED randoms
            /\ IF section.type = "tpm2" THEN Goto(c, "failed")
               ELSE IF ~Decodes(section, secrets[section.key].form) THEN st' = [st EXCEPT ![c] = KeyFails(c, @)]
               ELSE st' = [st EXCEPT ![c].pc = "have", ![c].pass = Passphrase(section, secrets[section.key])]
    /\ UNCHANGED <<world, checked>>

-----------------------------------------------------------------------------
(* open *)

(* The next volume is looked up again.                                      *)
Opened(s) == [s EXCEPT !.todo = Tail(@), !.pc = IF Len(s.todo) > 1 THEN "get" ELSE "end"]

(* open_for_specific_volume up to the key: an active volume is left alone.  *)
OpenBegin(c) ==
    /\ st[c].pc = "open"
    /\ LET active == \E d \in DOMAIN devs : devs[d].user = st[c].cur.volume
           usable == Dev(c).exists /\ Dev(c).user = None
           ready == volume_type(st[c].cur.section) = "Temporary" \/ Dev(c).header = "ready"
       IN st' = [st EXCEPT ![c] = IF active THEN Opened(@) ELSE IF usable /\ ready THEN Ask(@)
                                  ELSE [@ EXCEPT !.pc = "failed"]]
    /\ UNCHANGED <<world, randoms, checked>>

(* persistent_disk_open and temporary_disk_open with the key.               *)
OpenEnd(c) ==
    /\ st[c].pc = "have" /\ Job(c).kind = "open"
    /\ LET d == st[c].cur.dev
           temporary == volume_type(st[c].cur.section) = "Temporary"
       IN IF Dev(c).user = None /\ (temporary \/ Dev(c).slot = st[c].pass)
          THEN /\ devs' = [devs EXCEPT ![d].user = st[c].cur.volume, ![d].header = "ready",
                                       ![d].slot = st[c].pass]
               /\ st' = [st EXCEPT ![c] = Opened(@)]
          ELSE Goto(c, "failed") /\ UNCHANGED devs
    /\ UNCHANGED <<files, secrets, changes, randoms, checked>>

(* A command of open fails. The device of a temporary volume may have been  *)
(* formatted by then; a mapping that was set up is closed, or stays.        *)
OpenFails(c) ==
    /\ Job(c).kind = "open" /\ st[c].pc \in {"open", "have"}
    /\ st' = [st EXCEPT ![c].pc = "failed", ![c].hit = TRUE]
    /\ \/ UNCHANGED devs
       \/ /\ st[c].pc = "have" /\ Dev(c).user = None
          /\ LET d == st[c].cur.dev
                 temporary == volume_type(st[c].cur.section) = "Temporary"
             IN \E user \in {None, st[c].cur.volume}, header \in {"none", "ready"} :
                  /\ temporary \/ (header = Dev(c).header /\ Dev(c).slot = st[c].pass)
                  /\ devs' = [devs EXCEPT ![d].user = user, ![d].header = header, ![d].slot = st[c].pass]
    /\ UNCHANGED <<files, secrets, changes, randoms, checked>>

-----------------------------------------------------------------------------
(* The administrator *)

Noticed(edited) ==
    [c \in Commands |-> [st[c] EXCEPT !.steady = @ \ edited, !.fresh = st[c].pc = "start", !.trusting = FALSE]]

EditFile ==
    /\ changes < MaxChanges
    /\ \E f \in Files, x \in Contents :
         /\ files[f] # x
         /\ files' = [files EXCEPT ![f] = x]
         /\ st' = Noticed({f})
    /\ changes' = changes + 1 /\ checked' = FALSE
    /\ UNCHANGED <<devs, secrets, randoms>>

ChangeSecret ==
    /\ changes < MaxChanges
    /\ \E k \in DOMAIN secrets : secrets' = [secrets EXCEPT ![k].value = @ + 1]
    /\ st' = Noticed({})
    /\ changes' = changes + 1 /\ checked' = FALSE
    /\ UNCHANGED <<files, devs, randoms>>

AllEnded == (\A c \in Commands : st[c].pc \in Ended) /\ UNCHANGED vars

Step(c) ==
    \/ Begin(c) \/ get_volume_configs(c) \/ LoadFile(c) \/ LoadEnd(c)
    \/ CheckDevice(c) \/ CheckPassphrase(c) \/ End(c)
    \/ CallOk(c) \/ CallFails(c) \/ KeyEnd(c) \/ OpenBegin(c) \/ OpenEnd(c) \/ OpenFails(c)

Next == (\E c \in Commands : Step(c)) \/ EditFile \/ ChangeSecret \/ AllEnded

(* A command goes on; a call of a provider answers or fails in the end (the *)
(* clients have timeouts, commands of the user are taken to end).           *)
FairSpec == Init /\ [][Next]_vars /\ \A c \in Commands : WF_vars(Step(c))

-----------------------------------------------------------------------------
(* Properties *)

(* What a command acts on is one reading of the directory, however long it  *)
(* takes and whatever is edited meanwhile: no volume is defined twice, and  *)
(* every file that stood still while it was read is in it. An unreadable    *)
(* one is never passed over.                                                *)
OneConfiguration ==
    \A c \in Commands : st[c].cur # Null =>
        /\ st[c].loads = 1
        /\ \A v, w \in st[c].configs : v.volume = w.volume => v = w
        /\ \A f \in st[c].steady : files[f] = Absent \/ files[f] \in st[c].configs

(* A config check that passes with the passphrases checked means something: *)
(* as long as no file and no secret changes, an open in which no call fails *)
(* opens every configured volume that is temporary, or whose device is      *)
(* initialised, unless the device is in use.                                *)
CheckSound ==
    \A c \in Commands :
        st[c].pc = "failed" /\ Job(c).kind = "open" /\ st[c].trusting /\ ~st[c].hit =>
            \/ st[c].cur = Null \/ st[c].cur.volume # Head(st[c].todo)
            \/ Dev(c).user # None
            \/ volume_type(st[c].cur.section) = "Persistent" /\ Dev(c).header # "ready"

(* Every command returns, whatever its key provider's service does: the     *)
(* retries of the KMS are bounded.                                          *)
CommandsReturn == <>(\A c \in Commands : st[c].pc \in Ended)

=============================================================================
