-------------------------------- MODULE Hero --------------------------------
(***************************************************************************)
(* The game of BotShell, src/shell/src/builtins.c: mining and rpg buy,     *)
(* upgrade and pet, in several shells at once.  Every command loads the    *)
(* whole hero from the save file, changes it, and writes it back; mining   *)
(* takes 2.5 seconds in between.  The write truncates the file first and   *)
(* fills it when it is closed, and a command that loads it in between, or  *)
(* after its writer was killed there, starts from a new hero.  Nobody asks *)
(* whether it was written: a file that does not open leaves the old hero,  *)
(* a write that fails leaves the file empty, and the command succeeds.     *)
(*                                                                         *)
(* The file is the first of the three places that opens; the same one for  *)
(* every command, unless none does.                                        *)
(* Gold found is one of Yields before the skill's share.  The clock of the *)
(* cooldown counts in ticks.                                               *)
(***************************************************************************)
EXTENDS Integers, Sequences, FiniteSets

CONSTANTS Shells, Saves,     \* saves: heroes an earlier game left
          Yields, Cooldown,  \* 10 + rand() % 20, and 15 seconds
          MaxCommands, MaxClock

ASSUME HeroAssumption ==
    /\ Yields \subseteq Nat /\ Cooldown \in Nat \ {0}
    /\ MaxCommands \in Nat /\ MaxClock \in Nat

VARIABLES save,        \* the file: a hero, or <<>> when it is empty or missing
          at, held,    \* where each shell's command stands, and its copy
          now, commands,
          alone,       \* whether one shell plays, is not killed and can save
          earned, spent, lastMine   \* what the players did, for the properties

heroVars == <<save, at, held, now, commands, alone, earned, spent, lastMine>>

-----------------------------------------------------------------------------
(* The defaults of load_rpg_state. *)
NewHero == [level |-> 1, xp |-> 0, hp |-> 85, maxHp |-> 100, mana |-> 42,
            maxMana |-> 50, gold |-> 127, gear |-> {}, mining |-> 0, toughness |-> 0,
            expansion |-> 0, points |-> 0, pet |-> 0, petLevel |-> 0, love |-> 0,
            mined |-> -Cooldown]

Price == [sword |-> 50, helmet |-> 75, shield |-> 100, armor |-> 150]
Skill == {"mining", "toughness", "expansion"}

(* rpg_state_t, without the name.                                          *)
HeroState ==
    [level : Nat, xp : Nat, hp : Int, maxHp : Int, mana : Int, maxMana : Int,
     gold : Int, gear : SUBSET DOMAIN Price, mining : Nat, toughness : Nat,
     expansion : Nat, points : Int, pet : 0 .. 3, petLevel : Nat, love : Nat,
     mined : Int]

XpNeeded(h) == IF h.level = 1 THEN 100 ELSE 100 + h.level * 50

Loaded == IF save = <<>> THEN NewHero ELSE save

(* The level up at the end of builtin_mining. *)
Leveled(h) ==
    IF h.xp < XpNeeded(h) THEN h
    ELSE [h EXCEPT !.xp = @ - XpNeeded(h), !.level = @ + 1, !.points = @ + 1,
                   !.maxHp = @ + 10, !.hp = h.maxHp + 10,
                   !.maxMana = @ + 5, !.mana = h.maxMana + 5]

Found(h, y) == (y * (4 + h.mining)) \div 4
Mined(h, y, t) ==
    Leveled([h EXCEPT !.xp = @ + 15 + 2 * h.level, !.gold = @ + Found(h, y), !.mined = t])

Bought(h, g) ==
    LET hp   == CASE g = "helmet" -> 30 [] g = "armor" -> 50 [] OTHER -> 0
        mana == CASE g = "shield" -> 15 [] g = "armor" -> 20 [] OTHER -> 0
    IN  [h EXCEPT !.gold = @ - Price[g], !.gear = @ \cup {g},
                  !.maxHp = @ + hp, !.hp = @ + hp,
                  !.maxMana = @ + mana, !.mana = @ + mana]

Upgraded(h, k) ==
    LET hp   == IF k = "toughness" THEN 15 ELSE 0
        mana == IF k = "expansion" THEN 10 ELSE 0
    IN  [h EXCEPT ![k] = @ + 1, !.points = @ - 1, !.maxHp = @ + hp, !.hp = @ + hp,
                  !.maxMana = @ + mana, !.mana = @ + mana]

Loved(h, n) == IF h.love + n >= 100
                 THEN [h EXCEPT !.petLevel = @ + 1, !.love = 0]
                 ELSE [h EXCEPT !.love = @ + n]

-----------------------------------------------------------------------------
HeroInit ==
    /\ save \in Saves \cup {<<>>} /\ alone \in BOOLEAN
    /\ at = [s \in Shells |-> "prompt"] /\ held = [s \in Shells |-> <<>>]
    /\ now = 0 /\ commands = 0
    /\ earned = Loaded.gold /\ spent = 0 /\ lastMine = -Cooldown

(* A command starts: it loads the hero, and refuses or has a changed copy. *)
Command(s, h) ==
    /\ at[s] = "prompt" /\ commands < MaxCommands
    /\ alone => \A r \in Shells : at[r] = "prompt"
    /\ commands' = commands + 1
    /\ at' = [at EXCEPT ![s] = "loaded"] /\ held' = [held EXCEPT ![s] = h]
    /\ UNCHANGED <<save, now, alone>>

(* builtin_mining: the cooldown, and the animation before the save. *)
Mine(s) == \E y \in Yields :
    LET h == Loaded IN
    /\ now - h.mined >= Cooldown
    /\ Command(s, Mined(h, y, now))
    /\ earned' = earned + Found(h, y) /\ lastMine' = now
    /\ UNCHANGED spent

Buy(s) == \E g \in DOMAIN Price :
    LET h == Loaded IN
    /\ g \notin h.gear /\ h.gold >= Price[g]
    /\ Command(s, Bought(h, g))
    /\ spent' = spent + Price[g]
    /\ UNCHANGED <<earned, lastMine>>

Upgrade(s) == \E k \in Skill :
    LET h == Loaded IN
    /\ h.points >= 1 /\ h[k] < 5
    /\ Command(s, Upgraded(h, k))
    /\ UNCHANGED <<earned, spent, lastMine>>

Adopt(s) == \E p \in {1, 2, 3} :
    LET h == Loaded IN
    /\ h.pet = 0
    /\ Command(s, [h EXCEPT !.pet = p, !.petLevel = 1, !.love = 10])
    /\ UNCHANGED <<earned, spent, lastMine>>

Feed(s) ==
    LET h == Loaded IN
    /\ h.pet # 0 /\ h.gold >= 5
    /\ Command(s, Loved([h EXCEPT !.gold = @ - 5], 15))
    /\ spent' = spent + 5
    /\ UNCHANGED <<earned, lastMine>>

Play(s) ==
    LET h == Loaded IN
    /\ h.pet # 0 /\ h.mana >= 10
    /\ Command(s, Loved([h EXCEPT !.mana = @ - 10], 25))
    /\ UNCHANGED <<earned, spent, lastMine>>

(* save_rpg_state: fopen "wb" empties the file, fclose fills it.           *)
OpenSave(s) ==
    /\ at[s] = "loaded" /\ at' = [at EXCEPT ![s] = "opened"]
    /\ save' = <<>>
    /\ UNCHANGED <<held, now, commands, alone, earned, spent, lastMine>>

(* Mutant of WriteSave: the defaults are written back. *)
WriteNew(s) ==
    /\ at[s] = "opened" /\ at' = [at EXCEPT ![s] = "prompt"]
    /\ save' = NewHero /\ held' = [held EXCEPT ![s] = <<>>]
    /\ UNCHANGED <<now, commands, alone, earned, spent, lastMine>>

WriteSave(s) ==
    /\ at[s] = "opened" /\ at' = [at EXCEPT ![s] = "prompt"]
    /\ save' = held[s] /\ held' = [held EXCEPT ![s] = <<>>]
    /\ UNCHANGED <<now, commands, alone, earned, spent, lastMine>>

(* No place opens for writing.                                             *)
OpenFails(s) ==
    /\ at[s] = "loaded" /\ at' = [at EXCEPT ![s] = "prompt"]
    /\ held' = [held EXCEPT ![s] = <<>>] /\ alone' = FALSE
    /\ UNCHANGED <<save, now, commands, earned, spent, lastMine>>

(* fwrite or fclose fails, on a disk that is full: the file stays as it is. *)
WriteFails(s) ==
    /\ at[s] = "opened" /\ at' = [at EXCEPT ![s] = "prompt"]
    /\ held' = [held EXCEPT ![s] = <<>>] /\ alone' = FALSE
    /\ UNCHANGED <<save, now, commands, earned, spent, lastMine>>

(* The shell dies in the middle of its command.                            *)
Killed(s) ==
    /\ ~alone /\ at[s] # "prompt"
    /\ at' = [at EXCEPT ![s] = "prompt"] /\ held' = [held EXCEPT ![s] = <<>>]
    /\ UNCHANGED <<save, now, commands, alone, earned, spent, lastMine>>

Tick == /\ now < MaxClock /\ now' = now + 1
        /\ UNCHANGED <<save, at, held, commands, alone, earned, spent, lastMine>>

HeroNext == \/ \E s \in Shells : \/ Mine(s) \/ Buy(s) \/ Upgrade(s) \/ Adopt(s)
                                 \/ Feed(s) \/ Play(s)
                                 \/ OpenSave(s) \/ WriteSave(s)
                                 \/ OpenFails(s) \/ WriteFails(s) \/ Killed(s)
            \/ Tick

HeroSpec == HeroInit /\ [][HeroNext]_heroVars

-----------------------------------------------------------------------------
(* Properties *)

(* A hero adds up: what it can bear comes from its level, its gear and its *)
(* skills, each level gave one point, and gold is never owed.              *)
Owns(h, g, n) == IF g \in h.gear THEN n ELSE 0
AddsUp(h) ==
    /\ h.gold >= 0 /\ h.mana >= 0 /\ h.hp <= h.maxHp /\ h.mana <= h.maxMana
    /\ h.points >= 0 /\ h.points + h.mining + h.toughness + h.expansion = h.level - 1
    /\ h.maxHp = 90 + 10 * h.level + 15 * h.toughness
                   + Owns(h, "helmet", 30) + Owns(h, "armor", 50)
    /\ h.maxMana = 45 + 5 * h.level + 10 * h.expansion
                     + Owns(h, "shield", 15) + Owns(h, "armor", 20)
    /\ h.xp < XpNeeded(h) /\ h.love < 100 /\ (h.pet = 0 <=> h.petLevel = 0)

(* An earlier game left heroes that add up. *)
ASSUME SavesAssumption == \A h \in Saves : h \in HeroState /\ AddsUp(h)

(* A shell has a copy of the hero exactly while its command runs.          *)
HeroTypeOK ==
    /\ commands \in 0..MaxCommands /\ now \in 0..MaxClock /\ alone \in BOOLEAN
    /\ earned \in Int /\ spent \in Int /\ lastMine \in Int
    /\ save \in HeroState \cup {<<>>}
    /\ at \in [Shells -> {"prompt", "loaded", "opened"}]
    /\ held \in [Shells -> HeroState \cup {<<>>}]
    /\ \A s \in Shells : at[s] = "prompt" <=> held[s] = <<>>

(* Whatever the shells do to each other's saves, torn or lost, what the    *)
(* hero in every copy can bear, its points and its skills belong to its    *)
(* level and its gear, and it owes no gold.  What it earned before it was  *)
(* lost is not in it: that is ProgressKept.                                *)
HeroAddsUp == /\ save # <<>> => AddsUp(save)
              /\ \A s \in Shells : held[s] # <<>> => AddsUp(held[s])

(* A hero with all of the progress: its gold is what was there, with what  *)
(* was found and without what was spent, and the last mining is remembered. *)
Remembers(h) == h.gold = earned - spent /\ (lastMine >= 0 => h.mined = lastMine)

(* One shell that is left alone, and whose saves succeed, keeps all of its *)
(* progress: between two commands it is in the file, and while a command   *)
(* runs in the only copy.                                                  *)
ProgressKept ==
    alone => /\ (\A s \in Shells : at[s] = "prompt") =>
                    Remembers(Loaded) /\ (commands > 0 => save # <<>>)
             /\ \A s \in Shells : at[s] # "prompt" =>
                    Remembers(held[s]) /\ \A r \in Shells : at[r] # "prompt" => r = s

(* The hero is a possible one, and a player who is alone loses nothing.    *)
HeroInv == HeroTypeOK /\ HeroAddsUp /\ ProgressKept
=============================================================================
