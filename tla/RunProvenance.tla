---------------------------- MODULE RunProvenance ----------------------------
(***************************************************************************)
(* Is a run one experiment?  What a batch checks before it plays           *)
(* (backend/app/core/batch_runner.py, level 1 and RESUME; the bank it      *)
(* loads and ingests, db/ingest_boards.py; the run it mints,               *)
(* game_runner.create_run), while everything it depends on may change      *)
(* under it: the board files, the templates, the models the providers      *)
(* serve, the code, the runs and boards of the database.                   *)
(*                                                                         *)
(* One batch runs at a time (BatchRunner lets them overlap), every game it *)
(* plays is recorded (how games fail is BatchRunner's), and a row keeps    *)
(* what the game was really played with, whether the database records it   *)
(* or not.  The weights of a game are those served when its batch opened   *)
(* the run: the code looks no more after that, and neither does the model. *)
(***************************************************************************)
EXTENDS BatchSchedule

CONSTANTS
  Boards,            \* board ids that ever exist
  Contents,          \* versions of a board's artifact, told apart by their hash
  KindOf,            \* KindOf[b][v]: the kind board b has in version v
  Asks,              \* what batches are launched with: [seed, temperature, models]
  Templates,         \* fingerprints of the prompt templates and schemas
  Identities,        \* what a provider can serve for a model
  Vetted,            \* the identities the digest and routing gates let through
  Codes,             \* code versions
  Runs,              \* run ids
  Starts,            \* the files, templates, models, code and board table at the start
  MaxLaunches,       \* bound: batches launched
  MaxChanges,        \* bound: changes made by the environment
  EditsDuringLaunch  \* may the environment change while a batch is being launched?

ASSUME BankAssumption == /\ Boards \subseteq Nat /\ IsFiniteSet(Boards)
                         /\ KindOf \in [Boards -> [Contents -> Kinds]]
ASSUME AsksAssumption == \A ask \in Asks : ask.models \subseteq Nat /\ IsFiniteSet(ask.models)
ASSUME VettedAssumption == Vetted \subseteq Identities
ASSUME EditsAssumption == EditsDuringLaunch \in BOOLEAN

VARIABLES
  files,      \* the bank on disk: the content of each board's file, Absent or Broken
  templates,  \* the templates on disk
  serving,    \* what the providers serve for each model
  code,       \* the code in the working tree
  stored,     \* the board table: content, and whether its hash is recorded
  runs,       \* the run table
  rows,       \* the game table, by seed and game index
  job,        \* the batch process, Idle if there is none
  launches, changes

world == <<files, templates, serving, code>>
db    == <<stored, runs, rows>>
vars  == <<world, db, job, launches, changes>>

Absent == "absent"
Broken == "broken"
NotStored == [content |-> Absent, hashed |-> FALSE]
NoRun == [minted |-> FALSE]
NoRow == [run |-> "none"]
NoManifest == <<>>
Idle == [at |-> "idle"]

\* Neither a file's condition nor the absence of a run is one of the values.
ASSUME NamesAssumption == Absent \notin Contents /\ Broken \notin Contents /\ "none" \notin Runs

Entries == [content : Contents, hashed : BOOLEAN] \cup {NotStored}
ASSUME StartsAssumption ==
  \A s \in Starts : /\ s.files \in [Boards -> Contents \cup {Absent, Broken}]
                    /\ s.stored \in [Boards -> Entries]

Models == UNION {ask.models : ask \in Asks}
\* The game ids a batch can schedule: a seed and an index (_game_identity).
GameIds == UNION {{ask.seed} \X GameIndexes(ask.models) : ask \in Asks}

-----------------------------------------------------------------------------
(***************************************************************************)
(* The launch                                                              *)
(***************************************************************************)

\* The bank as loaded: the boards with a file, by content.
Bank(fs) == [b \in {x \in Boards : fs[x] # Absent} |-> fs[b]]
KindsOf(bank) == [b \in DOMAIN bank |-> KindOf[b][bank[b]]]
ScheduleOf(j) == BuildSchedule(j.ask.models, KindsOf(j.bank))
Scheduled(j) == {ScheduleOf(j)[g].board : g \in DOMAIN ScheduleOf(j)}

Refused == job' = Idle

\* The process starts: its code is in memory, and the bank is loaded strictly,
\* so that a broken file stops it.
LoadBank(ask, resume) ==
  /\ job = Idle
  /\ launches < MaxLaunches
  /\ \A b \in Boards : files[b] # Broken
  /\ job' = [at |-> "check", ask |-> ask, resume |-> resume, code |-> code, bank |-> Bank(files)]
  /\ launches' = launches + 1
  /\ UNCHANGED <<world, db, changes>>

\* The scheduled games the database holds.
Recorded(j) == {g \in DOMAIN ScheduleOf(j) : rows[<<j.ask.seed, g>>] # NoRow}

\* The run is the one this batch would mint, and what it recorded is what the
\* schedule says now (_resume_problems finds nothing).
NoResumeProblems(j, fingerprint) ==
  LET r == runs[j.resume]
  IN  /\ r # NoRun
      /\ r.seed = j.ask.seed /\ r.temperature = j.ask.temperature
      /\ r.templates = fingerprint
      /\ DOMAIN r.served = j.ask.models
      /\ \A g \in Recorded(j) : LET row == rows[<<j.ask.seed, g>>]
                                IN  row.run = j.resume /\ row.board = ScheduleOf(j)[g].board

\* The templates are read once, when the service is built; then the collision
\* check, or the first checks of a resume.
Check ==
  /\ job.at = "check"
  /\ LET ok == /\ CanSchedule(job.ask.models, KindsOf(job.bank))
               /\ IF job.resume = "none" THEN Recorded(job) = {}
                                         ELSE NoResumeProblems(job, templates)
     IN  \/ /\ ok
            /\ job' = [at |-> "ingest", ask |-> job.ask, resume |-> job.resume, code |-> job.code,
                       bank |-> job.bank, templates |-> templates, kept |-> Recorded(job)]
         \/ ~ok /\ Refused
  /\ UNCHANGED <<world, db, launches, changes>>

-----------------------------------------------------------------------------
(***************************************************************************)
(* The ingestion                                                           *)
(***************************************************************************)

\* Mutant: a board stored without its hash takes the hash of the file.
HashOfTheFile(b) ==
  files[b] \in Contents /\ (stored[b].hashed => stored[b].content = files[b])

\* The file can be taken in: it is a board, and the board stored under its id,
\* if there is one, has the same content, by its hash or, from before hashes
\* were recorded, column by column (_differences).
Acceptable(b) ==
  files[b] \in Contents /\ (stored[b] # NotStored => stored[b].content = files[b])

\* The board table once every file of the bank is stored or checked
\* (ingest_boards_if_absent).
Ingested ==
  [b \in Boards |-> CASE files[b] = Absent       -> stored[b]
                      [] files[b] # Absent /\ stored[b] = NotStored ->
                           [content |-> files[b], hashed |-> TRUE]
                      [] OTHER                    -> [stored[b] EXCEPT !.hashed = TRUE]]

\* One transaction takes the bank in, or nothing of it.  What is scheduled must
\* then be stored with its hash; by then the transaction has committed.
IngestBank ==
  /\ job.at = "ingest"
  /\ LET takenIn  == \A b \in Boards : files[b] # Absent => Acceptable(b)
         complete == \A b \in Scheduled(job) : Ingested[b].hashed
     IN  /\ stored' = IF takenIn THEN Ingested ELSE stored
         /\ \/ ~(takenIn /\ complete) /\ Refused
            \/ /\ takenIn /\ complete
               /\ job' = [at |-> "open", ask |-> job.ask, resume |-> job.resume,
                          code |-> job.code, bank |-> job.bank, templates |-> job.templates,
                          kept |-> job.kept,
                          manifest |-> [b \in Scheduled(job) |-> Ingested[b].content]]
  /\ UNCHANGED <<world, runs, rows, launches, changes>>

-----------------------------------------------------------------------------
(***************************************************************************)
(* The run                                                                 *)
(***************************************************************************)

\* The snapshot of the models served now, and the gates over it.
ServedNow(models) == [m \in models |-> serving[m]]
PassesTheGates(models) == \A m \in models : serving[m] \in Vetted

Play(j, run) ==
  [at |-> "play", ask |-> j.ask, run |-> run, code |-> j.code, bank |-> j.bank,
   templates |-> j.templates, kept |-> j.kept, served |-> ServedNow(j.ask.models), next |-> 0]

\* create_run: the gates, then the run's row.
CreateRun(r) ==
  /\ job.at = "open" /\ job.resume = "none"
  /\ \/ /\ PassesTheGates(job.ask.models)
        /\ runs[r] = NoRun
        /\ runs' = [runs EXCEPT ![r] =
             [minted |-> TRUE, seed |-> job.ask.seed, temperature |-> job.ask.temperature,
              templates |-> job.templates, served |-> ServedNow(job.ask.models),
              code |-> code, manifest |-> job.manifest, notes |-> {}]]
        /\ job' = Play(job, r)
     \/ ~PassesTheGates(job.ask.models) /\ Refused /\ UNCHANGED runs
  /\ UNCHANGED <<world, stored, rows, launches, changes>>

\* Mutant: the weights served now are gated and not compared with the run's.
GatedIsEnough(r) == PassesTheGates(job.ask.models)

\* The models served now are those the run was minted on.
SameModelsServed(r) ==
  PassesTheGates(job.ask.models) /\ \A m \in job.ask.models : serving[m] = runs[r].served[m]

\* The boards scheduled now, with their content, are the run's, if it recorded
\* them.
SameBoards(r) == runs[r].manifest = NoManifest \/ runs[r].manifest = job.manifest

\* The resumed run is opened again, and the resume goes into its notes.
ResumeRun ==
  /\ job.at = "open" /\ job.resume # "none"
  /\ LET r  == job.resume
         ok == runs[r] # NoRun /\ SameModelsServed(r) /\ SameBoards(r)
     IN  \/ ok /\ runs' = [runs EXCEPT ![r].notes = @ \cup {code}] /\ job' = Play(job, r)
         \/ ~ok /\ Refused /\ UNCHANGED runs
  /\ UNCHANGED <<world, stored, rows, launches, changes>>

\* The next game of the schedule, unless the run has it: played on the board in
\* memory, with the templates read at the launch, and stored under the run if
\* the run is still there.
PlayGame ==
  /\ job.at = "play" /\ job.next \in DOMAIN ScheduleOf(job)
  /\ LET g    == job.next
         id   == <<job.ask.seed, g>>
         cell == ScheduleOf(job)[g]
         row  == [run |-> job.run, pairing |-> cell.pairing, place |-> cell.place,
                  board |-> cell.board, content |-> job.bank[cell.board], seats |-> cell.seats,
                  temperature |-> job.ask.temperature, templates |-> job.templates,
                  served |-> [m \in {cell.seats[1], cell.seats[2]} |-> job.served[m]],
                  code |-> job.code]
     IN  IF g \notin job.kept /\ runs[job.run] # NoRun /\ stored[cell.board] # NotStored
           THEN rows' = [rows EXCEPT ![id] = row]
           ELSE UNCHANGED rows
  /\ job' = [job EXCEPT !.next = @ + 1]
  /\ UNCHANGED <<world, stored, runs, launches, changes>>

\* The schedule has been played, or the process dies, wherever it is.
End ==
  /\ job # Idle
  /\ job' = Idle
  /\ UNCHANGED <<world, db, launches, changes>>

-----------------------------------------------------------------------------
(***************************************************************************)
(* The world                                                               *)
(***************************************************************************)

MayChange ==
  /\ changes < MaxChanges
  /\ changes' = changes + 1
  /\ EditsDuringLaunch \/ job.at \in {"idle", "play"}
  /\ UNCHANGED <<job, launches>>

EditFile(b) ==
  /\ MayChange
  /\ \E v \in (Contents \cup {Absent, Broken}) \ {files[b]} : files' = [files EXCEPT ![b] = v]
  /\ UNCHANGED <<templates, serving, code, db>>

EditTemplates ==
  /\ MayChange
  /\ templates' \in Templates \ {templates}
  /\ UNCHANGED <<files, serving, code, db>>

ServeAnother(m) ==
  /\ MayChange
  /\ \E i \in Identities \ {serving[m]} : serving' = [serving EXCEPT ![m] = i]
  /\ UNCHANGED <<files, templates, code, db>>

DeployCode ==
  /\ MayChange
  /\ code' \in Codes \ {code}
  /\ UNCHANGED <<files, templates, serving, db>>

\* manage_runs.py delete: the run's games go with it, its boards stay.
DeleteRun(r) ==
  /\ MayChange
  /\ runs[r] # NoRun
  /\ runs' = [runs EXCEPT ![r] = NoRun]
  /\ rows' = [id \in GameIds |-> IF rows[id].run = r THEN NoRow ELSE rows[id]]
  /\ UNCHANGED <<world, stored>>

\* A board is deleted by hand, which its games' foreign key allows only when
\* none is left.
DeleteBoard(b) ==
  /\ MayChange
  /\ stored[b] # NotStored
  /\ \A id \in GameIds : rows[id] # NoRow => rows[id].board # b
  /\ stored' = [stored EXCEPT ![b] = NotStored]
  /\ UNCHANGED <<world, runs, rows>>

-----------------------------------------------------------------------------

\* The database may come from before hashes and manifests were recorded: boards
\* stored without their hash, and a run of which only its parameters are known.
Init ==
  /\ \E s \in Starts :
       /\ files = s.files
       /\ templates = s.templates
       /\ serving = s.serving
       /\ code = s.code
       /\ stored = s.stored
  /\ \E r \in Runs, ask \in Asks :
       runs \in {[x \in Runs |-> NoRun],
                 [x \in Runs |-> IF x = r
                    THEN [minted |-> TRUE, seed |-> ask.seed, temperature |-> ask.temperature,
                          templates |-> templates, served |-> ServedNow(ask.models), code |-> code,
                          manifest |-> NoManifest, notes |-> {}]
                    ELSE NoRun]}
  /\ rows = [id \in GameIds |-> NoRow]
  /\ job = Idle
  /\ launches = 0
  /\ changes = 0

Next ==
  \/ \E ask \in Asks, resume \in Runs \cup {"none"} : LoadBank(ask, resume)
  \/ Check
  \/ IngestBank
  \/ \E r \in Runs : CreateRun(r)
  \/ ResumeRun
  \/ PlayGame
  \/ End
  \/ \E b \in Boards : EditFile(b) \/ DeleteBoard(b)
  \/ EditTemplates
  \/ \E m \in Models : ServeAnother(m)
  \/ DeployCode
  \/ \E r \in Runs : DeleteRun(r)

Spec == Init /\ [][Next]_vars

-----------------------------------------------------------------------------
(***************************************************************************)
(* Properties                                                              *)
(***************************************************************************)

Played == {id \in GameIds : rows[id] # NoRow}

\* Every game of a run was played with what the run's row says: its seed, its
\* temperature, its models and the weights it was minted on, its templates, its
\* boards with their content; and with a code version the row or one of its
\* resumes names.
AsTheRunSays ==
  \A id \in Played : LET row == rows[id] r == runs[row.run] IN
    /\ r # NoRun
    /\ r.seed = id[1] /\ r.temperature = row.temperature /\ r.templates = row.templates
    /\ \A m \in DOMAIN row.served : m \in DOMAIN r.served /\ r.served[m] = row.served[m]
    /\ r.manifest # NoManifest =>
         row.board \in DOMAIN r.manifest /\ r.manifest[row.board] = row.content
    /\ row.code \in {r.code} \cup r.notes

\* Within a run the same place of every pairing, and both its mirrored games,
\* are one board with one content, and mirrored games exchange the seats: what
\* the comparison of models rests on (batch_schedule docstring).
MirrorIsKept ==
  \A x \in Played, y \in Played :
    LET a == rows[x] c == rows[y] IN
      a.run = c.run /\ a.place = c.place =>
        /\ a.board = c.board /\ a.content = c.content
        /\ a.pairing = c.pairing /\ x # y => a.seats = <<c.seats[2], c.seats[1]>>

\* A run is one experiment, however often it was resumed and whatever changed
\* between its batches.
RunIsOneExperiment == AsTheRunSays /\ MirrorIsKept

\* The database holds the boards its games were played on, with their content
\* hashed: a changed file stops a batch "instead of being played while the
\* database keeps the old board" (README, level 1).
PlayedIsStored ==
  \A id \in Played : LET row == rows[id] IN
    stored[row.board].hashed /\ stored[row.board].content = row.content

=============================================================================
