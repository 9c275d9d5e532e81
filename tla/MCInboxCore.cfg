SPECIFICATION MessagingSpec
CONSTANTS
    f1 = f1
    Senders = {a1}
    Keys = {k1, k2}
    Files = {f1}
    NoFile = NoFile
    Uploader <- OneUploader
    Bodies <- MCBodies
    Tasks = {t1}
    Sessions = {s1, s2}
    MaxSeq = 3
    h1 = h1
    h2 = h2
    a1 = a1
    a2 = a2
    a3 = a3
    a4 = a4
    TitledTasks = {t1, t2}
    t1 = t1
    t2 = t2
    Humans = {h1, h2}
    Agents = {a1, a2, a3, a4}
    Types = {"codex", "hermes"}
    NoOne = NoOne
    OwnerOf <- MCOwnerOf
    TypeOf <- MCTypeOf
    TypeHandle <- MCTypeHandle
    Caller = a1
    Texts <- MCTexts
    MaxChanges = 2
SYMMETRY Symmetry
INVARIANTS OnePerRequest AnswerHolds FileOnce DirectSeen
PROPERTIES BlockedSilent AnswerNamed
