------------------------- MODULE RegistrationProofs -------------------------
(***************************************************************************)
(* The safety properties of Registration, for any number of installations  *)
(* and of faults.                                                          *)
(*                                                                         *)
(* None of them but RunsOnIssuedToken is inductive: what a start-up leaves *)
(* on the disk depends on what the process that runs it has in memory, and *)
(* that on the files it was started from.  IInv says so, step by step.     *)
(***************************************************************************)
EXTENDS Registration, TLAPS

\* A process registers only with a one-time token: run() checks it first.
RegistersWithToken == pc = "register" => proc.one # None

TypeInv == TypeOK /\ RegistersWithToken

AtLeastInstalled(t) == t = None \/ t >= installed

\* The script is always about a newer token than the completed ones.
ScriptIsNewer ==
    /\ installed <= latest
    /\ installer # "idle" => installed < latest

\* No enrolment beside a script, unless overlapped says so.
NoOverlap == pc \in Enrolling => installer = "idle"

\* What each step of the script has achieved, nobody else interfering.
ScriptProgress ==
    /\ installer \in {"remove", "restart"} => env.token = latest
    /\ installer = "restart" => tokenFile = None

\* What each step of the process has achieved.
ProcessProgress ==
    /\ pc \in {"read", "truncate", "rewrite"} => tokenFile # None
    /\ pc = "rewrite" => env.token = None

\* Every token that can still become the running one is recent enough.
NothingStale ==
    /\ AtLeastInstalled(tokenFile)
    /\ AtLeastInstalled(env.token)
    /\ pc \in {"load", "register"} => AtLeastInstalled(proc.one)
    /\ pc \in {"save", "read", "truncate", "rewrite", "run"} => proc.perm >= installed

\* Without faults a process that starts has no permanent token yet.
NoTokenYet ==
    faults = 0 /\ pc \in {"load", "restarting", "register", "save"} => tokenFile = None

IInv ==
    /\ TypeInv
    /\ RunsOnIssuedToken
    /\ ScriptIsNewer
    /\ ~overlapped =>
        /\ NoOverlap
        /\ ScriptProgress
        /\ ProcessProgress
        /\ NothingStale
        /\ NoTokenYet
    /\ CredentialOnDisk
    /\ OneTimeTokenForgotten

-----------------------------------------------------------------------------
\* A machine before its first installation.
LEMMA InitType == Init => TypeInv
  <1> SUFFICES ASSUME Init PROVE TypeInv
    OBVIOUS
  <1> USE RegistrationAssumption
      DEF RegistrationAssumption, Init, OptToken, Token, None
  <1>1. env \in EnvFile /\ proc \in Process
    BY DEF EnvFile, EmptyEnv, Process
  <1>2. latest \in OptToken /\ installed \in OptToken /\ tokenFile \in OptToken
    OBVIOUS
  <1>3. exchanged \in SUBSET Token /\ revoked \in SUBSET Token
    OBVIOUS
  <1>4. faults \in 0..MaxFaults
    OBVIOUS
  <1>6. overlapped \in BOOLEAN
    BY Zenon
  <1>5. pc \in PC /\ installer \in {"idle", "write", "remove", "restart"}
    BY DEF PC, Startup
  <1> QED
    BY <1>1, <1>2, <1>3, <1>4, <1>5, <1>6 DEF TypeInv, TypeOK, RegistersWithToken

\* Every step keeps the types, and registers only a process that has a one-time token.
LEMMA TypeStep == TypeInv /\ [Next]_vars => TypeInv'
  <1> SUFFICES ASSUME TypeInv, [Next]_vars PROVE TypeInv'
    OBVIOUS
  <1> USE RegistrationAssumption
      DEF RegistrationAssumption, TypeInv, TypeOK, RegistersWithToken, EnvFile, EmptyEnv,
          OptToken, Token, None, PC, Startup, Process, Fault, Spawn, StoredToken, FirstStart, AfterSave,
          UnitAfter401, TokenFileRemoved,
          disk, install, server, history
  <1>1. CASE SystemdStart
    BY <1>1 DEF SystemdStart
  <1>2. CASE LoadToken
    BY <1>2 DEF LoadToken
  <1>3. CASE Register
    BY <1>3 DEF Register
  <1>4. CASE SaveToken
    BY <1>4 DEF SaveToken
  <1>5. CASE ReadEnv
    BY <1>5 DEF ReadEnv
  <1>6. CASE TruncateEnv
    BY <1>6 DEF TruncateEnv
  <1>7. CASE RewriteEnv
    BY <1>7 DEF RewriteEnv
  <1>8. CASE Rejected
    BY <1>8 DEF Rejected
  <1>9. CASE RegisterReplyLost
    <2>1. proc.one \in Token
      BY <1>9 DEF RegisterReplyLost
    <2>2. exchanged' \in SUBSET Token
      BY <1>9, <2>1 DEF RegisterReplyLost
    <2>3. faults' \in 0..MaxFaults
      BY <1>9 DEF RegisterReplyLost
    <2> QED
      BY <1>9, <2>2, <2>3 DEF RegisterReplyLost
  <1>10. CASE Fails
    BY <1>10 DEF Fails
  <1>11. CASE Reboot
    BY <1>11 DEF Reboot
  <1>12. CASE BeginInstall
    BY <1>12 DEF BeginInstall
  <1>13. CASE WriteEnv
    BY <1>13 DEF WriteEnv
  <1>14. CASE RemoveTokenFile
    BY <1>14 DEF RemoveTokenFile
  <1>15. CASE RestartUnit
    BY <1>15 DEF RestartUnit
  <1>16. CASE AbortInstall
    BY <1>16 DEF AbortInstall
  <1>17. CASE Revoke
    BY <1>17 DEF Revoke
  <1>18. CASE UNCHANGED vars
    BY <1>18 DEF vars
  <1> QED
    BY <1>1, <1>2, <1>3, <1>4, <1>5, <1>6, <1>7, <1>8, <1>9, <1>10, <1>11, <1>12,
       <1>13, <1>14, <1>15, <1>16, <1>17, <1>18
       DEF Next, ProcessStep, InstallerStep, Environment
\* Every variable keeps to its type, and nothing registers without a one-time
\* token, whatever the order of the steps.
THEOREM TypeCorrect == Spec => []TypeOK
  <1>1. TypeInv => TypeOK
    BY DEF TypeInv
  <1> QED
    BY <1>1, InitType, TypeStep, PTL DEF Spec

-----------------------------------------------------------------------------
\* Nothing is installed, so that nothing is promised yet.
LEMMA InitInv == Init => IInv
  <1> SUFFICES ASSUME Init PROVE IInv
    OBVIOUS
  <1> QED
    BY InitType DEF Init, IInv, RunsOnIssuedToken, ScriptIsNewer, NoOverlap,
       ScriptProgress, ProcessProgress, NothingStale, AtLeastInstalled, NoTokenYet,
       CredentialOnDisk, OneTimeTokenForgotten, Enrolling, Startup, EmptyEnv, None

\* Each step of the process, the script and the environment keeps the whole invariant;
\* those that begin while the other is under way are what overlapped stands for.
LEMMA InvStep == IInv /\ [Next]_vars => IInv'
  <1> SUFFICES ASSUME IInv, [Next]_vars PROVE IInv'
    OBVIOUS
  <1>0. TypeInv'
    BY TypeStep DEF IInv
  <1> USE <1>0, RegistrationAssumption
      DEF RegistrationAssumption, IInv, TypeInv, TypeOK, RegistersWithToken, EnvFile,
          EmptyEnv, OptToken, Token, None, PC, Startup, Enrolling, Process, Fault, Spawn, StoredToken, FirstStart, AfterSave,
          UnitAfter401, TokenFileRemoved,
          RunsOnIssuedToken, ScriptIsNewer, NoOverlap, ScriptProgress, ProcessProgress,
          NothingStale, AtLeastInstalled, NoTokenYet, CredentialOnDisk,
          OneTimeTokenForgotten, disk, install, server, history
  <1>1. CASE SystemdStart
    BY <1>1 DEF SystemdStart
  <1>2. CASE LoadToken
    <2>1. overlapped' = (overlapped \/ (pc' = "register" /\ installer # "idle"))
      BY <1>2 DEF LoadToken
    <2>2. ~overlapped' => ~overlapped /\ (pc' = "register" => installer = "idle")
      BY <2>1, Zenon
    <2>3. CASE tokenFile # None
      BY <1>2, <2>2, <2>3 DEF LoadToken
    <2>4. CASE tokenFile = None
      BY <1>2, <2>2, <2>4 DEF LoadToken
    <2> QED
      BY <2>3, <2>4
  <1>3. CASE Register
    BY <1>3 DEF Register
  <1>4. CASE SaveToken
    BY <1>4 DEF SaveToken
  <1>5. CASE ReadEnv
    BY <1>5 DEF ReadEnv
  <1>6. CASE TruncateEnv
    BY <1>6 DEF TruncateEnv
  <1>7. CASE RewriteEnv
    BY <1>7 DEF RewriteEnv
  <1>8. CASE Rejected
    BY <1>8 DEF Rejected
  <1>9. CASE RegisterReplyLost
    BY <1>9 DEF RegisterReplyLost
  <1>10. CASE Fails
    BY <1>10 DEF Fails
  <1>11. CASE Reboot
    BY <1>11 DEF Reboot
  <1>12. CASE BeginInstall
    <2>1. overlapped' = (overlapped \/ pc \in Enrolling)
      BY <1>12 DEF BeginInstall
    <2>2. ~overlapped' => ~overlapped /\ pc \notin Enrolling
      BY <2>1, Zenon
    <2> QED
      BY <1>12, <2>2 DEF BeginInstall
  <1>13. CASE WriteEnv
    BY <1>13 DEF WriteEnv
  <1>14. CASE RemoveTokenFile
    BY <1>14 DEF RemoveTokenFile
  <1>15. CASE RestartUnit
    BY <1>15 DEF RestartUnit
  <1>16. CASE AbortInstall
    BY <1>16 DEF AbortInstall
  <1>17. CASE Revoke
    BY <1>17 DEF Revoke
  <1>18. CASE UNCHANGED vars
    BY <1>18 DEF vars
  <1> QED
    BY <1>1, <1>2, <1>3, <1>4, <1>5, <1>6, <1>7, <1>8, <1>9, <1>10, <1>11, <1>12, <1>13, <1>14, <1>15, <1>16, <1>17, <1>18
       DEF Next, ProcessStep, InstallerStep, Environment

\* The invariant that the results below are read off, for every number of installations and faults.
THEOREM Invariance == Spec => []IInv
  BY InitInv, InvStep, PTL DEF Spec

\* Whatever the installations, kills and reboots, the agent connects only with
\* a token the control plane gave out.
THEOREM ConnectsWithIssuedToken == Spec => []RunsOnIssuedToken
  <1>1. IInv => RunsOnIssuedToken
    BY DEF IInv
  <1> QED
    BY <1>1, Invariance, PTL

\* The order of Save and RemoveOneTimeToken: a kill between any two steps leaves
\* a token to start with.
THEOREM CredentialSurvives == Spec => []CredentialOnDisk
  <1>1. IInv => CredentialOnDisk
    BY DEF IInv
  <1> QED
    BY <1>1, Invariance, PTL

\* A reinstallation that meets no enrolment makes the agent use its token.
THEOREM ReinstallIsFresh == Spec => []FreshRegistration
  <1>1. IInv => FreshRegistration
    BY DEF IInv, NothingStale, FreshRegistration
  <1> QED
    BY <1>1, Invariance, PTL

\* Without faults the one-time token is gone when the agent runs.
THEOREM TokenForgotten == Spec => []OneTimeTokenForgotten
  <1>1. IInv => OneTimeTokenForgotten
    BY DEF IInv
  <1> QED
    BY <1>1, Invariance, PTL

\* Both together: what the next start needs is there, what it must not use is gone.
THEOREM CredentialsStayInPlace == Spec => []CredentialsInPlace
  <1>1. IInv => CredentialsInPlace
    BY DEF IInv, CredentialsInPlace
  <1> QED
    BY <1>1, Invariance, PTL

-----------------------------------------------------------------------------
\* Before the first script is over there is no unit to start a process.
FirstScript ==
    /\ ~overlapped
    /\ installed = None => pc = "inactive"
    /\ installed # None => latest = MaxInstalls /\ installer = "idle"

\* On a machine where install.sh runs once there is nothing to overlap: the
\* exceptions made for it fall away, and the agent never runs on an old token.
THEOREM OneInstallIsFresh == MaxInstalls <= 1 /\ Spec => []FreshTokenUsed
  <1> SUFFICES ASSUME MaxInstalls <= 1 PROVE Spec => []FreshTokenUsed
    OBVIOUS
  <1>1. Init => FirstScript
    BY DEF Init, FirstScript, None
  <1>2. IInv /\ FirstScript /\ [Next]_vars => FirstScript'
    <2> SUFFICES ASSUME IInv, FirstScript, [Next]_vars PROVE FirstScript'
      OBVIOUS
    <2> USE RegistrationAssumption
        DEF RegistrationAssumption, FirstScript, IInv, ScriptIsNewer, TypeInv, TypeOK, OptToken, Token, None,
            Startup, Enrolling, Fault, Spawn, StoredToken, FirstStart, AfterSave,
          UnitAfter401, TokenFileRemoved, disk, install, server, history
    <2>1. CASE ProcessStep
      BY <2>1 DEF ProcessStep, SystemdStart, LoadToken, Register, SaveToken, ReadEnv,
                  TruncateEnv, RewriteEnv, Rejected
    <2>2. CASE InstallerStep
      BY <2>2 DEF InstallerStep, WriteEnv, RemoveTokenFile, RestartUnit
    <2>3. CASE Environment
      BY <2>3 DEF Environment, RegisterReplyLost, Fails, Reboot, BeginInstall,
                  AbortInstall, Revoke
    <2>4. CASE UNCHANGED vars
      BY <2>4 DEF vars
    <2> QED
      BY <2>1, <2>2, <2>3, <2>4 DEF Next
  <1>3. IInv /\ FirstScript => FreshTokenUsed
    BY DEF IInv, FirstScript, NothingStale, FreshTokenUsed
  <1> QED
    BY <1>1, <1>2, <1>3, Invariance, PTL DEF Spec

-----------------------------------------------------------------------------
\* The agent is down, starting, or running on the token that was revoked and stored,
\* and nobody installs any more.
Barred ==
    /\ tokenFile \in revoked
    /\ installer = "idle" /\ latest = MaxInstalls
    /\ pc \in {"load", "run", "restarting", "inactive"}
    /\ pc = "run" => proc.perm = tokenFile

\* A revoked agent never enrols again and never gets another token, whatever is killed,
\* restarted or rebooted: what RevokedStaysDown rests on.  That it also stops takes the
\* fairness of the process.
THEOREM RevokedStaysBarred == Spec => [][Barred => Barred']_vars
  <1>1. TypeInv /\ [Next]_vars => [Barred => Barred']_vars
    <2> SUFFICES ASSUME TypeInv, [Next]_vars, Barred PROVE Barred'
      OBVIOUS
    <2> USE RegistrationAssumption
        DEF RegistrationAssumption, Barred, TypeInv, TypeOK, Process, OptToken, Token, None,
            Startup, Fault, Spawn, StoredToken, UnitAfter401, disk, install, server, history
    <2>1. CASE ProcessStep
      <3>1. SystemdStart \/ LoadToken \/ Rejected
        BY <2>1 DEF ProcessStep, Register, SaveToken, ReadEnv, TruncateEnv, RewriteEnv
      <3>2. CASE SystemdStart
        BY <3>2 DEF SystemdStart
      <3>3. CASE LoadToken
        BY <3>3 DEF LoadToken
      <3>4. CASE Rejected
        BY <3>4 DEF Rejected
      <3> QED
        BY <3>1, <3>2, <3>3, <3>4
    <2>2. CASE InstallerStep
      BY <2>2 DEF InstallerStep, WriteEnv, RemoveTokenFile, RestartUnit
    <2>3. CASE Environment
      BY <2>3 DEF Environment, RegisterReplyLost, Fails, Reboot, BeginInstall,
                  AbortInstall, Revoke
    <2>4. CASE UNCHANGED vars
      BY <2>4 DEF vars
    <2> QED
      BY <2>1, <2>2, <2>3, <2>4 DEF Next
  <1>2. Spec => []TypeInv
    BY InitType, TypeStep, PTL DEF Spec
  <1> QED
    BY <1>1, <1>2, PTL DEF Spec
=============================================================================
