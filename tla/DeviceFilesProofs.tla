--------------------------- MODULE DeviceFilesProofs ---------------------------
(***************************************************************************)
(* The files of a device, for any number of starts, pairs and saves: what  *)
(* a server that is up can rely on, and that neither a failure nor the end *)
(* of the program at any point destroys a key or a configuration.          *)
(***************************************************************************)
EXTENDS DeviceFiles, TLAPS

USE DeviceFilesAssumption DEF DeviceFilesAssumption

Generating == {"open_key", "open_cert", "write", "close_cert", "close_key", "secure_key"}
Steps == {"off", "failed", "validate", "directory", "check", "load", "up", "save_close", "save_rename"}
           \cup Generating
MaybeFile == Files \cup {Absent}

TypeInv ==
  /\ step \in Steps /\ private \in BOOLEAN /\ dir \in {"absent", "open", "secure"}
  /\ key \in MaybeFile /\ cert \in MaybeFile /\ config \in MaybeFile /\ tmp \in MaybeFile
  /\ opened \subseteq {"key"} /\ pairs \in Nat /\ settings \in Nat /\ lost \in BOOLEAN
  /\ identity \in Nat /\ removals \in Nat

\* A file that is there has a number and two marks.
LEMMA FileType ==
  ASSUME NEW of \in Nat, NEW whole \in BOOLEAN, NEW secure \in BOOLEAN
  PROVE  /\ File(of, whole, secure) \in Files
         /\ File(of, whole, secure).of = of
         /\ File(of, whole, secure).whole = whole
         /\ File(of, whole, secure).secure = secure
BY DEF File, Files

\* Setting a mark of a file.
LEMMA MarkType ==
  ASSUME NEW f \in Files, NEW ok \in BOOLEAN
  PROVE  /\ [f EXCEPT !.whole = ok] \in Files
         /\ [f EXCEPT !.whole = ok].of = f.of
         /\ [f EXCEPT !.whole = ok].whole = ok
BY DEF Files

LEMMA SecureType ==
  ASSUME NEW f \in Files
  PROVE  /\ [f EXCEPT !.secure = TRUE] \in Files
         /\ [f EXCEPT !.secure = TRUE].of = f.of
         /\ [f EXCEPT !.secure = TRUE].whole = f.whole
         /\ [f EXCEPT !.secure = TRUE].secure = TRUE
BY DEF Files

\* A mark is TRUE or FALSE.
LEMMA MarkValue == \A f \in Files : (f.whole <=> f.whole = TRUE) /\ (f.secure <=> f.secure = TRUE)
BY DEF Files

\* Where the two files are while a server starts.
KeyAt ==
  /\ step = "directory" => ((key = Absent) <=> (cert = Absent))
  /\ step = "open_key" => key = Absent
  /\ step \in {"open_cert", "write", "close_cert", "close_key"} => key = Absent \/ key.whole = FALSE
  /\ step = "open_cert" => ("key" \in opened => key # Absent)
  /\ step \in {"write", "close_cert", "close_key", "secure_key", "check", "load"}
       => key # Absent /\ cert # Absent
  /\ step \in Generating \cup {"check", "load"} => dir = "secure"
  /\ step = "load" => key.secure = TRUE

Good == /\ key # Absent /\ cert # Absent /\ key.of = cert.of
        /\ key.whole = TRUE /\ cert.whole = TRUE /\ key.secure = TRUE /\ dir = "secure"

UpIsGood == step = "up" \/ Saving => Good

\* The pair the device was last up with is there, and no start goes wrong.
Settled ==
  identity # 0 /\ removals = 0 =>
    /\ Good /\ key.of = identity /\ step \notin Generating
    /\ step = "failed" => Torn(config)

\* The configuration, unless a close failed.
ConfigAt ==
  lost = FALSE =>
    /\ config # Absent => config.whole = TRUE
    /\ step \notin {"off", "failed"} /\ config # Absent => settings >= config.of
    /\ Saving => tmp.of = settings
    /\ step = "save_rename" => tmp.whole = TRUE

\* The file that is written to while the configuration is saved.
TmpThere == Saving => tmp # Absent

IInv == TypeInv /\ KeyAt /\ TmpThere /\ UpIsGood /\ Settled /\ ConfigAt

LEMMA InitInv == Init => IInv
<1> SUFFICES ASSUME Init PROVE IInv
  OBVIOUS
<1>1. TypeInv
  BY DEF Init, TypeInv, Steps, Generating, MaybeFile
<1>2. KeyAt /\ TmpThere /\ UpIsGood
  BY DEF Init, KeyAt, TmpThere, UpIsGood, Saving, Generating
<1>3. Settled /\ ConfigAt
  BY DEF Init, Settled, ConfigAt, Saving
<1>4. QED
  BY <1>1, <1>2, <1>3 DEF IInv

\* Every step keeps the types.
LEMMA TypeKept == ASSUME TypeInv, KeyAt, TmpThere, [Next]_vars PROVE TypeInv'
<1> USE DEF TypeInv, Steps, Generating, MaybeFile, keyVars, configVars
<1>1. CASE Start
  BY <1>1 DEF Start, Goto, Torn, Files
<1>2. CASE Validate
  BY <1>2 DEF Validate, Goto
<1>3. CASE SecureDirectory
  BY <1>3 DEF SecureDirectory, Goto
<1>4. CASE CheckPermissions
  BY <1>4 DEF CheckPermissions, Goto
<1>5. CASE Load
  BY <1>5 DEF Load, Goto, Files
<1>6. CASE Change
  BY <1>6 DEF Change
<1>7. CASE SaveOpen
  BY <1>7, FileType DEF SaveOpen, Goto
<1>8. CASE SaveRename
  BY <1>8 DEF SaveRename, Goto
<1>9. ASSUME NEW ok \in BOOLEAN, OpenKey(ok) PROVE TypeInv'
  BY <1>9, FileType DEF OpenKey, Goto
<1>10. ASSUME NEW ok \in BOOLEAN, OpenCert(ok) PROVE TypeInv'
  BY <1>10, FileType DEF OpenCert, Goto
<1>11. ASSUME NEW ok \in BOOLEAN, Write(ok) PROVE TypeInv'
  BY <1>11 DEF Write, Discard, Goto
<1>12. ASSUME NEW ok \in BOOLEAN, CloseCert(ok) PROVE TypeInv'
  <2>1. cert \in Files
    BY <1>12 DEF CloseCert, KeyAt
  <2>2. QED
    BY <1>12, <2>1, MarkType DEF CloseCert, Goto
<1>13. ASSUME NEW ok \in BOOLEAN, CloseKey(ok) PROVE TypeInv'
  <2>1. key \in Files
    BY <1>13 DEF CloseKey, KeyAt
  <2>2. QED
    BY <1>13, <2>1, MarkType DEF CloseKey, Goto
<1>14. ASSUME NEW ok \in BOOLEAN, SecureKey(ok) PROVE TypeInv'
  <2>1. key \in Files
    BY <1>14 DEF SecureKey, KeyAt
  <2>2. [key EXCEPT !.secure = TRUE] \in Files
    BY <2>1, SecureType
  <2>3. CASE ok
    BY <1>14, <2>2, <2>3 DEF SecureKey, Goto
  <2>4. CASE ~ok
    BY <1>14, <2>4 DEF SecureKey, Discard, Goto
  <2>5. QED
    BY <2>3, <2>4
<1>15. ASSUME NEW ok \in BOOLEAN, SaveClose(ok) PROVE TypeInv'
  <2>1. tmp \in Files
    BY <1>15 DEF SaveClose, TmpThere, Saving
  <2>2. QED
    BY <1>15, <2>1, MarkType DEF SaveClose, Goto
<1>16. CASE Killed
  BY <1>16 DEF Killed, Goto
<1>17. CASE UserRemoves
  BY <1>17 DEF UserRemoves
<1>18. CASE UNCHANGED vars
  BY <1>18 DEF vars
<1>19. QED
  BY <1>1, <1>2, <1>3, <1>4, <1>5, <1>6, <1>7, <1>8, <1>9, <1>10, <1>11, <1>12, <1>13, <1>14, <1>15, <1>16, <1>17, <1>18 DEF Next

\* Every step keeps the file that is written to.
LEMMA TmpKept ==
  ASSUME TypeInv, TmpThere, [Next]_vars PROVE TmpThere'
<1> USE DEF TmpThere, Saving, configVars
<1>1. CASE Start
  BY <1>1 DEF Start, Goto
<1>2. CASE Validate
  BY <1>2 DEF Validate, Goto
<1>3. CASE SecureDirectory
  BY <1>3 DEF SecureDirectory, Goto
<1>4. CASE CheckPermissions
  BY <1>4 DEF CheckPermissions, Goto
<1>5. CASE Load
  BY <1>5 DEF Load, Goto
<1>6. CASE Change
  BY <1>6 DEF Change
<1>7. CASE SaveOpen
  <2>1. tmp' \in Files
    BY <1>7, FileType DEF SaveOpen, TypeInv
  <2>2. QED
    BY <2>1
<1>8. CASE SaveRename
  BY <1>8 DEF SaveRename, Goto
<1>9. ASSUME NEW ok \in BOOLEAN, OpenKey(ok) PROVE TmpThere'
  BY <1>9 DEF OpenKey, Goto
<1>10. ASSUME NEW ok \in BOOLEAN, OpenCert(ok) PROVE TmpThere'
  BY <1>10 DEF OpenCert, Goto
<1>11. ASSUME NEW ok \in BOOLEAN, Write(ok) PROVE TmpThere'
  BY <1>11 DEF Write, Goto, Discard
<1>12. ASSUME NEW ok \in BOOLEAN, CloseCert(ok) PROVE TmpThere'
  BY <1>12 DEF CloseCert, Goto
<1>13. ASSUME NEW ok \in BOOLEAN, CloseKey(ok) PROVE TmpThere'
  BY <1>13 DEF CloseKey, Goto
<1>14. ASSUME NEW ok \in BOOLEAN, SecureKey(ok) PROVE TmpThere'
  BY <1>14 DEF SecureKey, Goto, Discard
<1>15. ASSUME NEW ok \in BOOLEAN, SaveClose(ok) PROVE TmpThere'
  <2>1. tmp \in Files
    BY <1>15 DEF SaveClose, TypeInv, MaybeFile
  <2>2. tmp' \in Files
    BY <1>15, <2>1, MarkType DEF SaveClose
  <2>3. QED
    BY <2>2
<1>16. CASE Killed
  BY <1>16 DEF Killed, Goto
<1>17. CASE UserRemoves
  BY <1>17 DEF UserRemoves
<1>18. CASE UNCHANGED vars
  BY <1>18 DEF vars
<1>19. QED
  BY <1>1, <1>2, <1>3, <1>4, <1>5, <1>6, <1>7, <1>8, <1>9, <1>10, <1>11, <1>12, <1>13, <1>14, <1>15, <1>16, <1>17, <1>18 DEF Next

\* Every step keeps what is known of the two files during a start.
LEMMA KeyAtKept ==
  ASSUME TypeInv, KeyAt, [Next]_vars PROVE KeyAt'
<1> USE DEF KeyAt, Generating, keyVars
<1>1. CASE Start
  BY <1>1 DEF Start, Goto
<1>2. CASE Validate
  BY <1>2 DEF Validate, Goto
<1>3. CASE SecureDirectory
  BY <1>3 DEF SecureDirectory, Goto
<1>4. CASE CheckPermissions
  BY <1>4 DEF CheckPermissions, Goto
<1>5. CASE Load
  BY <1>5 DEF Load, Goto
<1>6. CASE Change
  BY <1>6 DEF Change
<1>7. CASE SaveOpen
  BY <1>7 DEF SaveOpen, Goto
<1>8. CASE SaveRename
  BY <1>8 DEF SaveRename, Goto
<1>9. ASSUME NEW ok \in BOOLEAN, OpenKey(ok) PROVE KeyAt'
  <2>1. ok => key' \in Files /\ key'.whole = FALSE
    BY <1>9, FileType DEF OpenKey, TypeInv
  <2>2. QED
    BY <1>9, <2>1 DEF OpenKey, Goto
<1>10. ASSUME NEW ok \in BOOLEAN, OpenCert(ok) PROVE KeyAt'
  <2>1. ok => cert' \in Files
    BY <1>10, FileType DEF OpenCert, TypeInv
  <2>2. QED
    BY <1>10, <2>1 DEF OpenCert, Goto
<1>11. ASSUME NEW ok \in BOOLEAN, Write(ok) PROVE KeyAt'
  BY <1>11 DEF Write, Goto, Discard
<1>12. ASSUME NEW ok \in BOOLEAN, CloseCert(ok) PROVE KeyAt'
  <2>1. cert \in Files
    BY <1>12 DEF CloseCert, TypeInv, MaybeFile
  <2>2. cert' \in Files
    BY <1>12, <2>1, MarkType DEF CloseCert
  <2>3. QED
    BY <1>12, <2>2 DEF CloseCert, Goto
<1>13. ASSUME NEW ok \in BOOLEAN, CloseKey(ok) PROVE KeyAt'
  <2>1. key \in Files
    BY <1>13 DEF CloseKey, TypeInv, MaybeFile
  <2>2. key' \in Files
    BY <1>13, <2>1, MarkType DEF CloseKey
  <2>3. QED
    BY <1>13, <2>2 DEF CloseKey, Goto
<1>14. ASSUME NEW ok \in BOOLEAN, SecureKey(ok) PROVE KeyAt'
  <2>1. key \in Files
    BY <1>14 DEF SecureKey, TypeInv, MaybeFile
  <2>2. ok => key' \in Files /\ key'.secure = TRUE
    BY <1>14, <2>1, SecureType DEF SecureKey
  <2>3. QED
    BY <1>14, <2>2 DEF SecureKey, Goto, Discard
<1>15. ASSUME NEW ok \in BOOLEAN, SaveClose(ok) PROVE KeyAt'
  BY <1>15 DEF SaveClose, Goto
<1>16. CASE Killed
  BY <1>16 DEF Killed, Goto
<1>17. CASE UserRemoves
  BY <1>17 DEF UserRemoves
<1>18. CASE UNCHANGED vars
  BY <1>18 DEF vars
<1>19. QED
  BY <1>1, <1>2, <1>3, <1>4, <1>5, <1>6, <1>7, <1>8, <1>9, <1>10, <1>11, <1>12, <1>13, <1>14, <1>15, <1>16, <1>17, <1>18 DEF Next

\* Only Load brings a server up, and nothing disturbs its files while it is.
LEMMA UpKept ==
  ASSUME TypeInv, KeyAt, UpIsGood, [Next]_vars PROVE UpIsGood'
<1> USE DEF UpIsGood, Good, Saving, keyVars, configVars
<1>1. CASE Start
  BY <1>1 DEF Start, Goto
<1>2. CASE Validate
  BY <1>2 DEF Validate, Goto
<1>3. CASE SecureDirectory
  BY <1>3 DEF SecureDirectory, Goto
<1>4. CASE CheckPermissions
  BY <1>4 DEF CheckPermissions, Goto
<1>5. CASE Load
  <2> DEFINE Loads == key # Absent /\ cert # Absent /\ key.whole /\ cert.whole /\ key.of = cert.of
  <2>1. Loads => key.whole = TRUE /\ cert.whole = TRUE
    BY MarkValue DEF TypeInv, MaybeFile
  <2>2. step = "load" /\ step' = IF Loads THEN "up" ELSE "failed"
    BY <1>5 DEF Load, Goto
  <2>3. UNCHANGED <<key, cert, dir>>
    BY <1>5 DEF Load
  <2>4. dir = "secure" /\ key.secure = TRUE
    BY <2>2 DEF KeyAt, Generating
  <2>5. QED
    BY <2>1, <2>2, <2>3, <2>4
<1>6. CASE Change
  BY <1>6 DEF Change
<1>7. CASE SaveOpen
  BY <1>7 DEF SaveOpen, Goto
<1>8. CASE SaveRename
  BY <1>8 DEF SaveRename, Goto
<1>9. ASSUME NEW ok \in BOOLEAN, OpenKey(ok) PROVE UpIsGood'
  BY <1>9 DEF OpenKey, Goto
<1>10. ASSUME NEW ok \in BOOLEAN, OpenCert(ok) PROVE UpIsGood'
  BY <1>10 DEF OpenCert, Goto
<1>11. ASSUME NEW ok \in BOOLEAN, Write(ok) PROVE UpIsGood'
  BY <1>11 DEF Write, Goto, Discard
<1>12. ASSUME NEW ok \in BOOLEAN, CloseCert(ok) PROVE UpIsGood'
  BY <1>12 DEF CloseCert, Goto
<1>13. ASSUME NEW ok \in BOOLEAN, CloseKey(ok) PROVE UpIsGood'
  BY <1>13 DEF CloseKey, Goto
<1>14. ASSUME NEW ok \in BOOLEAN, SecureKey(ok) PROVE UpIsGood'
  BY <1>14 DEF SecureKey, Goto, Discard
<1>15. ASSUME NEW ok \in BOOLEAN, SaveClose(ok) PROVE UpIsGood'
  BY <1>15 DEF SaveClose, Goto
<1>16. CASE Killed
  BY <1>16 DEF Killed, Goto
<1>17. CASE UserRemoves
  BY <1>17 DEF UserRemoves
<1>18. CASE UNCHANGED vars
  BY <1>18 DEF vars
<1>19. QED
  BY <1>1, <1>2, <1>3, <1>4, <1>5, <1>6, <1>7, <1>8, <1>9, <1>10, <1>11, <1>12, <1>13, <1>14, <1>15, <1>16, <1>17, <1>18 DEF Next

\* No start that goes wrong harms the pair the device was up with.
LEMMA SettledKept ==
  ASSUME TypeInv, KeyAt, UpIsGood, Settled, [Next]_vars PROVE Settled'
<1> USE DEF Settled, Good, Torn, Generating, keyVars, configVars
<1>1. CASE Start
  BY <1>1 DEF Start, Goto
<1>2. CASE Validate
  BY <1>2 DEF Validate, Goto
<1>3. CASE SecureDirectory
  BY <1>3 DEF SecureDirectory, Goto
<1>4. CASE CheckPermissions
  BY <1>4 DEF CheckPermissions, Goto
<1>5. CASE Load
  <2> DEFINE Loads == key # Absent /\ cert # Absent /\ key.whole /\ cert.whole /\ key.of = cert.of
  <2>1. Loads => key.whole = TRUE /\ cert.whole = TRUE
    BY MarkValue DEF TypeInv, MaybeFile
  <2>2. step = "load" /\ step' = IF Loads THEN "up" ELSE "failed"
    BY <1>5 DEF Load, Goto
  <2>3. UNCHANGED <<key, cert, dir>>
    BY <1>5 DEF Load
  <2>4. dir = "secure" /\ key.secure = TRUE
    BY <2>2 DEF KeyAt, Generating
  <2>5. removals' = removals /\ identity' = IF step' = "up" THEN key.of ELSE identity
    BY <1>5, <2>2 DEF Load, Goto
  <2>6. CASE Loads
    BY <2>1, <2>2, <2>3, <2>4, <2>5, <2>6
  <2>7. CASE ~Loads
    <3>1. ~(identity # 0 /\ removals = 0)
      BY <2>7, MarkValue DEF TypeInv, MaybeFile
    <3>2. QED
      BY <2>2, <2>5, <2>7, <3>1
  <2>8. QED
    BY <2>6, <2>7
<1>6. CASE Change
  BY <1>6 DEF Change
<1>7. CASE SaveOpen
  BY <1>7 DEF SaveOpen, Goto
<1>8. CASE SaveRename
  BY <1>8 DEF SaveRename, Goto
<1>9. ASSUME NEW ok \in BOOLEAN, OpenKey(ok) PROVE Settled'
  BY <1>9 DEF OpenKey, Goto
<1>10. ASSUME NEW ok \in BOOLEAN, OpenCert(ok) PROVE Settled'
  BY <1>10 DEF OpenCert, Goto
<1>11. ASSUME NEW ok \in BOOLEAN, Write(ok) PROVE Settled'
  BY <1>11 DEF Write, Goto, Discard
<1>12. ASSUME NEW ok \in BOOLEAN, CloseCert(ok) PROVE Settled'
  BY <1>12 DEF CloseCert, Goto
<1>13. ASSUME NEW ok \in BOOLEAN, CloseKey(ok) PROVE Settled'
  BY <1>13 DEF CloseKey, Goto
<1>14. ASSUME NEW ok \in BOOLEAN, SecureKey(ok) PROVE Settled'
  BY <1>14 DEF SecureKey, Goto, Discard
<1>15. ASSUME NEW ok \in BOOLEAN, SaveClose(ok) PROVE Settled'
  BY <1>15 DEF SaveClose, Goto
<1>16. CASE Killed
  BY <1>16 DEF Killed, Goto
<1>17. CASE UserRemoves
  BY <1>17 DEF UserRemoves, TypeInv
<1>18. CASE UNCHANGED vars
  BY <1>18 DEF vars
<1>19. QED
  BY <1>1, <1>2, <1>3, <1>4, <1>5, <1>6, <1>7, <1>8, <1>9, <1>10, <1>11, <1>12, <1>13, <1>14, <1>15, <1>16, <1>17, <1>18 DEF Next

\* Every step keeps the configuration whole.
LEMMA ConfigAtKept ==
  ASSUME TypeInv, TmpThere, ConfigAt, [Next]_vars PROVE ConfigAt'
<1> USE DEF ConfigAt, Saving, configVars
<1>1. CASE Start
  BY <1>1 DEF Start, Goto
<1>2. CASE Validate
  BY <1>2 DEF Validate, Goto
<1>3. CASE SecureDirectory
  BY <1>3 DEF SecureDirectory, Goto
<1>4. CASE CheckPermissions
  BY <1>4 DEF CheckPermissions, Goto
<1>5. CASE Load
  BY <1>5 DEF Load, Goto
<1>6. CASE Change
  BY <1>6 DEF Change, TypeInv, MaybeFile, Files
<1>7. CASE SaveOpen
  <2>1. tmp'.of = settings
    BY <1>7, FileType DEF SaveOpen, TypeInv
  <2>2. QED
    BY <1>7, <2>1 DEF SaveOpen, Goto
<1>8. CASE SaveRename
  BY <1>8 DEF SaveRename, Goto, TypeInv
<1>9. ASSUME NEW ok \in BOOLEAN, OpenKey(ok) PROVE ConfigAt'
  BY <1>9 DEF OpenKey, Goto
<1>10. ASSUME NEW ok \in BOOLEAN, OpenCert(ok) PROVE ConfigAt'
  BY <1>10 DEF OpenCert, Goto
<1>11. ASSUME NEW ok \in BOOLEAN, Write(ok) PROVE ConfigAt'
  BY <1>11 DEF Write, Goto, Discard
<1>12. ASSUME NEW ok \in BOOLEAN, CloseCert(ok) PROVE ConfigAt'
  BY <1>12 DEF CloseCert, Goto, TypeInv
<1>13. ASSUME NEW ok \in BOOLEAN, CloseKey(ok) PROVE ConfigAt'
  BY <1>13 DEF CloseKey, Goto, TypeInv
<1>14. ASSUME NEW ok \in BOOLEAN, SecureKey(ok) PROVE ConfigAt'
  BY <1>14 DEF SecureKey, Goto, Discard
<1>15. ASSUME NEW ok \in BOOLEAN, SaveClose(ok) PROVE ConfigAt'
  <2>1. tmp \in Files
    BY <1>15 DEF SaveClose, TypeInv, TmpThere, MaybeFile
  <2>2. tmp'.of = tmp.of /\ tmp'.whole = ok
    BY <1>15, <2>1, MarkType DEF SaveClose
  <2>3. QED
    BY <1>15, <2>2 DEF SaveClose, Goto, TypeInv
<1>16. CASE Killed
  BY <1>16 DEF Killed, Goto
<1>17. CASE UserRemoves
  BY <1>17 DEF UserRemoves
<1>18. CASE UNCHANGED vars
  BY <1>18 DEF vars
<1>19. QED
  BY <1>1, <1>2, <1>3, <1>4, <1>5, <1>6, <1>7, <1>8, <1>9, <1>10, <1>11, <1>12, <1>13, <1>14, <1>15, <1>16, <1>17, <1>18 DEF Next

LEMMA StepInv == IInv /\ [Next]_vars => IInv'
BY TypeKept, TmpKept, KeyAtKept, UpKept, SettledKept, ConfigAtKept DEF IInv

THEOREM Invariant == Spec => []IInv
BY InitInv, StepInv, PTL DEF Spec

\* A server that is up has both files, whole, of one pair, and a key only its owner
\* can read (Server.cpp:370-461): however many starts before it went wrong.
THEOREM UpAlwaysWhole == Spec => []UpMeansWholePair
<1>1. IInv => UpMeansWholePair
  BY MarkValue DEF IInv, TypeInv, MaybeFile, UpIsGood, Good, UpMeansWholePair
<1>2. QED
  BY <1>1, Invariant, PTL

\* A device that has been up starts again with its identity, unless a file was
\* removed or its configuration is torn (Server.cpp:370, 456-461).
THEOREM AlwaysStartsAgain == Spec => []StartsAgain
<1>1. IInv => StartsAgain
  BY DEF IInv, Settled, Good, StartsAgain
<1>2. QED
  BY <1>1, Invariant, PTL

\* No step writes over a key that is whole and secure (Server.cpp:370, 423).
THEOREM KeyAlwaysKept == Spec => KeyKept
<1> DEFINE Kept == key # Absent /\ key.whole /\ key.secure
                     => key' = Absent \/ (key'.of = key.of /\ key'.whole)
<1>1. ASSUME IInv, [Next]_vars PROVE Kept
  <2>1. CASE key' = key
    BY <2>1
  <2>2. ASSUME NEW ok \in BOOLEAN, OpenKey(ok) PROVE Kept
    BY <1>1, <2>2 DEF IInv, KeyAt, OpenKey
  <2>3. ASSUME NEW ok \in BOOLEAN, Write(ok) PROVE Kept
    BY <2>3 DEF Write, Discard
  <2>4. ASSUME NEW ok \in BOOLEAN, CloseKey(ok) PROVE Kept
    <3>1. key # Absent => key.whole = FALSE
      BY <1>1, <2>4 DEF IInv, KeyAt, CloseKey
    <3>2. QED
      BY <3>1
  <2>5. ASSUME NEW ok \in BOOLEAN, SecureKey(ok) PROVE Kept
    <3>1. key \in Files
      BY <1>1, <2>5 DEF IInv, KeyAt, TypeInv, MaybeFile, SecureKey
    <3>2. CASE ok
      BY <2>5, <3>1, <3>2, SecureType DEF SecureKey
    <3>3. CASE ~ok
      BY <2>5, <3>3 DEF SecureKey, Discard
    <3>4. QED
      BY <3>2, <3>3
  <2>6. CASE UserRemoves
    BY <2>6 DEF UserRemoves
  <2>7. QED
    BY <1>1, <2>1, <2>2, <2>3, <2>4, <2>5, <2>6
    DEF Next, vars, keyVars, Start, Validate, SecureDirectory, CheckPermissions, Load, Change,
        SaveOpen, SaveRename, OpenCert, CloseCert, SaveClose, Killed
<1>2. QED
  BY <1>1, Invariant, PTL DEF Spec, KeyKept

\* No step tears the configuration or brings back an older one, unless a close
\* failed unseen (ServerConfig.cpp:78-85, Config.cpp:60-67).
THEOREM ConfigAlwaysKept == Spec => ConfigKept
<1> DEFINE Kept == lost' \/ config' = config
                     \/ (config'.whole /\ (config # Absent => config'.of >= config.of))
<1>1. ASSUME IInv, [Next]_vars PROVE Kept
  <2>1. CASE config' = config
    BY <2>1
  <2>2. CASE SaveRename
    <3>1. lost = FALSE => config'.whole = TRUE /\ (config # Absent => config'.of >= config.of)
      BY <1>1, <2>2 DEF IInv, ConfigAt, SaveRename, Saving
    <3>2. lost' = lost /\ lost \in BOOLEAN
      BY <1>1, <2>2 DEF IInv, TypeInv, SaveRename
    <3>3. QED
      BY <3>1, <3>2
  <2>3. QED
    BY <1>1, <2>1, <2>2
    DEF Next, vars, keyVars, configVars, Start, Validate, SecureDirectory, CheckPermissions, Load, Change,
        SaveOpen, OpenKey, OpenCert, Write, CloseCert, CloseKey, SecureKey, SaveClose, Killed, UserRemoves
<1>2. QED
  BY <1>1, Invariant, PTL DEF Spec, ConfigKept
================================================================================
