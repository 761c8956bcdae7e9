SPECIFICATION LiveSpec
CONSTANT MaxText = 3
INVARIANTS PasteStaysPut NothingLeftBehind
PROPERTIES RestIsDropped TimersFire
