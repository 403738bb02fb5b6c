----------------------------- MODULE GrubConfig -----------------------------
(***************************************************************************)
(* What cryptpilot-fde reads out of a disk's GRUB configuration            *)
(* (disk/grub.rs): the variables of grubenv and grub.cfg, the entry that   *)
(* is booted by default, and the parameters of its kernel; beside it, what *)
(* GRUB itself makes of the same files.                                    *)
(*                                                                         *)
(* A text is a sequence of tokens: <<"sp">> a blank, <<"lit", x>> a word,  *)
(* <<"var", s1, ..., sn>> a reference to the variable whose name has these *)
(* segments (a name can be a prefix of another). A variable's value is a   *)
(* text. An entry is                                                       *)
(*   [id, names, kernel, initrd, form, options]:                           *)
(* `names` are the ids its menuentry line contains, `form` is how its      *)
(* paths are written: "rel", "boot" (/boot/...) or "abs" (/...).           *)
(***************************************************************************)
EXTENDS Integers, Sequences, SequencesExt, FiniteSetsExt

Sp == <<"sp">>
IsVar(t) == t[1] = "var"
TunedParams == <<"tuned", "params">>
TunedInitrd == <<"tuned", "initrd">>
Kernelopts == <<"kernelopts">>

-----------------------------------------------------------------------------
(* Texts *)

(* str::replace of "$key" by a value, in one token: a reference to a longer *)
(* name that begins with the key is hit too, and the rest stays as a word.  *)
ReplaceIn(t, key, value) ==
    IF ~IsVar(t) \/ ~IsPrefix(key, Tail(t)) THEN <<t>>
    ELSE LET rest == SubSeq(t, Len(key) + 2, Len(t))
         IN value \o (IF rest = <<>> THEN <<>> ELSE << <<"lit">> \o rest >>)

Replace(text, key, value) ==
    FlattenSeq([i \in 1 .. Len(text) |-> ReplaceIn(text[i], key, value)])

(* The loop over the HashMap of variables, in the order it happens to have. *)
Substitute(text, vars, order) ==
    FoldLeft(LAMBDA acc, key : Replace(acc, key, vars[key]), text, order)

(* One pass of str::replace("  ", " "): pairs of blanks become one.         *)
ReplaceBlanks(text) ==
    FoldLeft(LAMBDA acc, t :
               IF t = Sp /\ acc.odd THEN [out |-> acc.out, odd |-> FALSE]
               ELSE [out |-> Append(acc.out, t), odd |-> t = Sp],
             [out |-> <<>>, odd |-> FALSE], text).out

Trim(text) ==
    LET ink == {i \in DOMAIN text : text[i] # Sp}
    IN IF ink = {} THEN <<>> ELSE SubSeq(text, Min(ink), Max(ink))

(* split_whitespace and join(" "): blanks are single and inside.            *)
Words(text) ==
    FoldLeft(LAMBDA acc, t : IF acc # <<>> /\ t = Sp /\ Last(acc) = Sp THEN acc ELSE Append(acc, t),
             <<>>, Trim(text))

-----------------------------------------------------------------------------
(* The code *)

(* parse_grub_env_vars. `opts` are the "set kernelopts=" lines of grub.cfg: *)
(* "set" begins the line; "guarded" is indented below a line                *)
(* `if [ -z "${kernelopts}" ]; then`; "escaped" below such a line with      *)
(* backslashes before the quotes, which is the form the code looks for.     *)
OptsOf(opts, how) == SelectSeq(opts, LAMBDA o : o.how = how)

parse_grub_env_vars(env, opts) ==
    LET base == [n \in DOMAIN env \cup {TunedParams, TunedInitrd} |->
                    IF n \in DOMAIN env THEN env[n] ELSE <<>>]
        found == OptsOf(opts, "escaped") \o OptsOf(opts, "set")
    IN IF Kernelopts \in DOMAIN base \/ found = <<>> THEN base
       ELSE [n \in DOMAIN base \cup {Kernelopts} |->
                IF n = Kernelopts THEN found[1].value ELSE base[n]]

(* Mutant: the parameters are not trimmed.                                  *)
load_from_loader_entry_file_Untrimmed(entry, vars, order) ==
    [form |-> entry.form, kernel |-> entry.kernel, initrd |-> entry.initrd,
     cmdline |-> ReplaceBlanks(Substitute(entry.options, vars, order))]

(* load_from_loader_entry_file: variables are substituted, and the path is  *)
(* used as it is written.                                                   *)
load_from_loader_entry_file(entry, vars, order) ==
    [form |-> entry.form, kernel |-> entry.kernel, initrd |-> entry.initrd,
     cmdline |-> Trim(ReplaceBlanks(Substitute(entry.options, vars, order)))]

(* load_from_grub_cfg: the first menuentry line that contains the saved     *)
(* entry; paths are put below /boot, variables are left as they are.        *)
load_from_grub_cfg(menu, saved) ==
    LET hits == SelectSeq(menu, LAMBDA e : saved \in e.names)
    IN [form |-> IF hits[1].form = "abs" THEN "boot" ELSE hits[1].form,
        kernel |-> hits[1].kernel, initrd |-> hits[1].initrd,
        cmdline |-> Words(hits[1].options)]

(* get_disk_root_device takes away the last digit (and a "p"): the disk, or *)
(* a partition of it.                                                       *)
get_disk_root_device(n) == n \div 10
(* fdisk -l prints no label type for a partition, which counts as GPT.      *)
detect_disk_partition_type(n, table) == IF get_disk_root_device(n) = 0 THEN table ELSE "gpt"

-----------------------------------------------------------------------------
(* What GRUB does: references are replaced all at once by their full name,  *)
(* unset ones by nothing; empty words vanish.                               *)
GrubExpand(text, vars) ==
    Words(FlattenSeq([i \in 1 .. Len(text) |->
        IF ~IsVar(text[i]) THEN <<text[i]>>
        ELSE IF Tail(text[i]) \in DOMAIN vars THEN vars[Tail(text[i])] ELSE <<>>]))

(* grub.cfg sets kernelopts where the line is reached.                      *)
GrubVars(env, opts) ==
    IF Kernelopts \in DOMAIN env \/ opts = <<>> THEN env
    ELSE [n \in DOMAIN env \cup {Kernelopts} |->
             IF n = Kernelopts THEN opts[1].value ELSE env[n]]

=============================================================================
