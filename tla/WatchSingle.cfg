SPECIFICATION WatchSpec
CONSTANTS
    Watcher = {"w1", "w2"}
    Misled = {}
INVARIANT
    OneWatcher
