\* init, the shell and three more processes; lines of up to 7 characters on
\* rings that wrap; the parser against the grammar on up to 5 tokens.
CONSTANTS
  Procs = {0, 1, 2, 3, 4}
  INPUT_BUF = 4
  UART_TX_BUF_SIZE = 2
  IndexMod = 8
  Start = 6
  RxFifo = 2
  Scripts <- MCScripts
  MAXARGS = 3
  Words <- MCWords
  MaxTokens = 5
  NBUF = 7
  CatBuf = 2
  PipeSize = 1
  NOFD = 6
SPECIFICATION Spec
CHECK_DEADLOCK FALSE
INVARIANT ParserCorrect
PROPERTIES ImplementsTty PromptsAgain
