SPECIFICATION Spec
CONSTANTS
  WORD_SIZE = 4
  UINT_RANGE = 64
  PAGE_SIZE = 4
  WORD_BYTES = 2
  Machines <- AllMachines
INVARIANTS TypeOK KernelAndBitmapStay BitmapInFreeRam PanicOnlyWhenShort HandedOutIsRam
PROPERTIES NullMeansExhausted NeverTwice
CHECK_DEADLOCK FALSE
