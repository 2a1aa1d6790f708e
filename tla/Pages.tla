------------------------------- MODULE Pages -------------------------------
(***************************************************************************)
(* The pages the agent builds and the bridge serves: the directory of each *)
(* page, which the agent's shell does with as it likes and the bridge's    *)
(* page verbs look at; the marker that takes a page down; and the part of  *)
(* the settings that says who may change a page and which word opens it,   *)
(* held twice, in the running bridge and in its file.  Verbs are performed *)
(* one at a time, and two of them wait in the middle, so that the          *)
(* operator's panel, visitors, an edit of the file by hand and a restart   *)
(* come between.  Publishing changes nothing and is left out.              *)
(***************************************************************************)
EXTENDS Naturals

CONSTANTS
  Slugs, Chats, Words,   \* pages, conversations, passwords
  Open,                  \* whether an unclaimed page is anyone's to change
  MAX_IMAGES_PER_PAGE,
  Entries,               \* what visitors write to a page's database
  MaxHands, MaxFaults    \* bounds: edits by hand, failed writes and restarts

PagesAssumption ==
  /\ MAX_IMAGES_PER_PAGE \in Nat /\ Open \in BOOLEAN
  /\ {MaxHands, MaxFaults} \subseteq Nat
  /\ "unclaimed" \notin Chats /\ "none" \notin Words

VARIABLES
  page,        \* what is on the disk under each name
  running,     \* the settings of pages the bridge runs under
  saved,       \* and those of its file
  legible,     \* whether the file is JSON at all
  byHand,      \* whether it was edited since the bridge read it
  verb,        \* the page verb that is being performed
  told,        \* history: the word of each page last saved, and whether it was taken down
  shown,       \* the last answer to a visitor
  hands, faults

settings == <<running, saved, legible, byHand>>
vars == <<page, settings, verb, told, shown, hands, faults>>

Unclaimed == {"unclaimed"}
NoWord == "none"
Grants == {Unclaimed} \cup SUBSET Chats
Word == Words \cup {NoWord}
Nothing ==
  [dir |-> FALSE, index |-> FALSE, down |-> FALSE, pictures |-> 0, entries |-> {}]
Idle == [kind |-> "idle"]

\* What a name may have on the disk: a picture that was asked for comes after the count
\* of those there are, and the shell's are counted up to the limit only.
Directory(most) ==
  {Nothing} \cup [dir : {TRUE}, index : BOOLEAN, down : BOOLEAN, pictures : 0..most, entries : SUBSET Entries]

TypeOK ==
  /\ page \in [Slugs -> Directory(MAX_IMAGES_PER_PAGE + 1)]
  /\ {running, saved} \subseteq [grants : [Slugs -> Grants], words : [Slugs -> Word]]
  /\ {legible, byHand} \subseteq BOOLEAN
  /\ verb = Idle \/ verb \in [kind : {"pageNew", "pageImage"}, slug : Slugs]
  /\ told \in [Slugs -> [word : Word, down : BOOLEAN]]
  /\ shown \in [slug : Slugs, offered : Word,
                answer : {"page", "changed", "no page", "no database", "locked"}]
  /\ hands \in 0..MaxHands /\ faults \in 0..MaxFaults

Init ==
  /\ page = [s \in Slugs |-> Nothing]
  /\ running = [grants |-> [s \in Slugs |-> Unclaimed],
                words |-> [s \in Slugs |-> NoWord]]
  /\ saved = running
  /\ legible = TRUE /\ byHand = FALSE
  /\ verb = Idle
  /\ told = [s \in Slugs |-> [word |-> NoWord, down |-> FALSE]]
  /\ \E s \in Slugs : shown = [slug |-> s, offered |-> NoWord, answer |-> "no page"]
  /\ hands = 0 /\ faults = 0

----------------------------------------------------------------------------
(* What the bridge asks of the directory and of the settings *)

\* A directory with a file in it is a page, whether or not it has an index.
Listed == {s \in Slugs : page[s].index \/ page[s].pictures > 0 \/ page[s].entries # {}}

MayChange(c, s) ==
  IF running.grants[s] = Unclaimed THEN Open ELSE c \in running.grants[s]

Full(p) == p.pictures >= MAX_IMAGES_PER_PAGE

\* A starting page: the one file, beside whatever is there.
MutantScaffolded(p) == [p EXCEPT !.dir = TRUE, !.index = TRUE, !.down = FALSE]
Scaffolded(p) == [p EXCEPT !.dir = TRUE, !.index = TRUE]

\* A page is read from its files, unless it was taken down or is locked.
Opens(s, offered) == running.words[s] \in {NoWord, offered}
Answer(s, offered) ==
  CASE page[s].down -> "no page"
    [] ~page[s].down /\ ~Opens(s, offered) -> "locked"
    [] ~page[s].down /\ Opens(s, offered) -> IF page[s].index THEN "page" ELSE "no page"

\* Only a page with a word takes changes, from who offers it, to a database it has.
AnswerToWrite(s, offered) ==
  CASE page[s].down -> "no page"
    [] ~page[s].down /\ (running.words[s] = NoWord \/ ~Opens(s, offered)) -> "locked"
    [] OTHER -> IF page[s].entries # {} THEN "changed" ELSE "no database"

----------------------------------------------------------------------------
(* The one writer of the settings *)

\* What the bridge runs under after a save that went through, or did not.
Applied(ok, next) == IF ok THEN next ELSE running

\* The file is edited where it stands, then the change is applied; a file that
\* cannot be read or written leaves both as they were.
Save(part, value, ok) ==
  /\ \/ ok /\ legible /\ UNCHANGED faults
     \/ ~ok /\ ~legible /\ UNCHANGED faults
     \/ ~ok /\ legible /\ faults < MaxFaults /\ faults' = faults + 1
  /\ saved' = IF ok THEN [saved EXCEPT ![part] = value] ELSE saved
  /\ running' = Applied(ok, [running EXCEPT ![part] = value])
  /\ UNCHANGED <<legible, byHand>>

----------------------------------------------------------------------------
(* The agent: its shell, and the verbs of its turns *)

\* The directory is the agent's to write, to empty and to remove, with the marker in
\* it: a page it puts back that way is no longer said to be down.
AgentWrites(s) ==
  /\ \E p \in Directory(MAX_IMAGES_PER_PAGE) :
       /\ page' = [page EXCEPT ![s] = p]
       /\ told' = [told EXCEPT ![s].down = @ /\ p.down]
  /\ UNCHANGED <<settings, verb, shown, hands, faults>>

PageNew(c, s) ==
  /\ verb = Idle /\ MayChange(c, s)
  /\ verb' = [kind |-> "pageNew", slug |-> s]
  /\ UNCHANGED <<page, settings, told, shown, hands, faults>>

\* After the holding message has been sent.
Scaffold ==
  /\ verb.kind = "pageNew"
  /\ LET s == verb.slug IN
       page' = IF page[s].index THEN page ELSE [page EXCEPT ![s] = Scaffolded(@)]
  /\ verb' = Idle
  /\ UNCHANGED <<settings, told, shown, hands, faults>>

PageImage(c, s) ==
  /\ verb = Idle /\ MayChange(c, s) /\ ~Full(page[s])
  /\ verb' = [kind |-> "pageImage", slug |-> s]
  /\ UNCHANGED <<page, settings, told, shown, hands, faults>>

\* The picture came, or it did not.
WritePicture ==
  /\ verb.kind = "pageImage"
  /\ \/ page' = [page EXCEPT ![verb.slug].dir = TRUE, ![verb.slug].pictures = @ + 1]
     \/ UNCHANGED page
  /\ verb' = Idle
  /\ UNCHANGED <<settings, told, shown, hands, faults>>

PageDelete(c, s) ==
  /\ verb = Idle /\ MayChange(c, s)
  /\ page[s].dir
  /\ page' = [page EXCEPT ![s].down = TRUE]
  /\ told' = [told EXCEPT ![s].down = TRUE]
  /\ UNCHANGED <<settings, verb, shown, hands, faults>>

\* The agent is told that it went through whatever the save came to; the word in
\* force is the last that was saved.
PagePassword(c, s, w) ==
  /\ verb = Idle /\ MayChange(c, s)
  /\ \E ok \in BOOLEAN :
       /\ Save("words", [running.words EXCEPT ![s] = w], ok)
       /\ told' = IF ok THEN [told EXCEPT ![s].word = w] ELSE told
  /\ UNCHANGED <<page, verb, shown, hands>>

----------------------------------------------------------------------------
(* The operator: the panel, and the file *)

PanelDelete(s) ==
  /\ page' = [page EXCEPT ![s] = Nothing]
  /\ told' = [told EXCEPT ![s].down = FALSE]
  /\ UNCHANGED <<settings, verb, shown, hands, faults>>

Restore(s) ==
  /\ page' = [page EXCEPT ![s].down = FALSE]
  /\ told' = [told EXCEPT ![s].down = FALSE]
  /\ UNCHANGED <<settings, verb, shown, hands, faults>>

PanelPassword(s, w) ==
  /\ IF w = NoWord THEN running.words[s] # NoWord ELSE s \in Listed
  /\ \E ok \in BOOLEAN :
       /\ Save("words", [running.words EXCEPT ![s] = w], ok)
       /\ told' = IF ok THEN [told EXCEPT ![s].word = w] ELSE told
  /\ UNCHANGED <<page, verb, shown, hands>>

PanelGrant(s, g) ==
  /\ \E ok \in BOOLEAN : Save("grants", [running.grants EXCEPT ![s] = g], ok)
  /\ UNCHANGED <<page, verb, told, shown, hands>>

\* config.json edited in place while the bridge runs: a grant, or a comma too many.
HandEdit ==
  /\ hands < MaxHands /\ hands' = hands + 1
  /\ \/ /\ legible
        /\ \E s \in Slugs, g \in Grants : saved' = [saved EXCEPT !.grants[s] = g]
        /\ byHand' = TRUE
        /\ UNCHANGED <<running, legible>>
     \/ legible' = ~legible /\ UNCHANGED <<running, saved, byHand>>
  /\ UNCHANGED <<page, verb, told, shown, faults>>

\* A bridge whose file it cannot read does not start.
Restart ==
  /\ faults < MaxFaults /\ faults' = faults + 1
  /\ legible
  /\ running' = saved
  /\ byHand' = FALSE
  /\ verb' = Idle
  /\ UNCHANGED <<page, saved, legible, told, shown, hands>>

----------------------------------------------------------------------------
(* Visitors *)

Get(s, offered) ==
  /\ shown' = [slug |-> s, offered |-> offered, answer |-> Answer(s, offered)]
  /\ UNCHANGED <<page, settings, verb, told, hands, faults>>

Post(s, offered) ==
  /\ LET answer == AnswerToWrite(s, offered) IN
       /\ shown' = [slug |-> s, offered |-> offered, answer |-> answer]
       /\ IF answer = "changed"
          THEN \E e \in Entries : page' = [page EXCEPT ![s].entries = @ \cup {e}]
          ELSE UNCHANGED page
  /\ UNCHANGED <<settings, verb, told, hands, faults>>

----------------------------------------------------------------------------
Next ==
  \/ \E s \in Slugs :
       \/ AgentWrites(s) \/ PanelDelete(s) \/ Restore(s)
       \/ \E c \in Chats :
            \/ PageNew(c, s) \/ PageImage(c, s) \/ PageDelete(c, s)
            \/ \E w \in Word : PagePassword(c, s, w)
       \/ \E w \in Word : PanelPassword(s, w) \/ Get(s, w) \/ Post(s, w)
       \/ \E g \in Grants : PanelGrant(s, g)
  \/ Scaffold \/ WritePicture
  \/ HandEdit \/ Restart

Spec == Init /\ [][Next]_vars

----------------------------------------------------------------------------
\* A save that fails, before or after the file is touched, changes nothing, so
\* that a restart brings nothing back and takes nothing away but what was edited
\* by hand (updateSettings: write first, then apply).
RestartChangesNothing == ~byHand => running = saved

\* What was done to a page stays so, whatever is built, saved, restarted or deleted
\* after it: a page taken down is shown to nobody until an operator restores or removes
\* it or the agent's own shell takes the marker away, and a page is shown and changed
\* only to who offers the last word that was saved for it, a save that failed having
\* left the word before in force.
VisitorsSeeWhatWasSaid ==
  [][shown'.answer \in {"page", "changed"} /\ shown' # shown =>
       LET t == told[shown'.slug] IN
         ~t.down /\ t.word \in {NoWord, shown'.offered}]_vars

=============================================================================
