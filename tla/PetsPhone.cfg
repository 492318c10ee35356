SPECIFICATION Spec
CONSTANTS
  main = main
  Slot <- Slots
  Absent = Absent
  Unsure = Unsure
  Pages = 2
  MaxTexts = 2
  MaxPhotos = 2
  MaxViews = 2
  MaxQuizzes = 2
  MaxFaults = 1
  MaxQueue = 2
  MaxReads = 2
INVARIANTS
  TypeOK
  PhotosExist
  NoOrphans
  TextKept
  QuizKept
  DeletedStaysDeleted
  AnswersAtQuestions
  IosSurvives
CHECK_DEADLOCK FALSE
